---- MODULE Spec2Model ----
(***************************************************************************)
(* A model of strokers: the Movement command type (strokers_core), the     *)
(* funscript playback tracker (strokers_funscript), the axis limiter and   *)
(* the per-axis playstate (strokers_for_mpv/playstate.rs), and the         *)
(* playtask event loop with its bounded channel (playthread.rs, lib.rs).   *)
(*                                                                         *)
(* Numbers.  An f32 position is a record: a finite value in fixed point    *)
(* (v counts 1/Unit of full scale, results of arithmetic rounded to the    *)
(* nearest unit), a NaN, or an infinity.  Instants and durations are       *)
(* integers in milliseconds.  A speed is a fixed-point number of           *)
(* full scales per second.                                                 *)
(***************************************************************************)
EXTENDS Integers, Sequences, FiniteSets, TLC

VARIABLES
    overflow_checks,    \* build profile: TRUE = integer overflow panics (debug)
    \* -- FunscriptPlaystate under test (SpecTracker)
    funscript,          \* the FunscriptPlaystate
    trk_op,             \* the last call made on it, its argument, pre-state and result
    trk_returned,       \* indices returned by tick since the last seek
    \* -- AxisLimiter under test (SpecLimiter)
    limiter,            \* the AxisLimiter
    lim_op,             \* the last call made on it
    lim_commits,        \* how many notify_commanded calls were made
    \* -- Movement::new under test (SpecMovement)
    mv_in,              \* the arguments
    movement,           \* whether it was called, and the Option<Movement> it returned
    \* -- playtask (Spec, SpecE2E)
    config,             \* config.limits: AxisKind -> LimitsConfig, where configured
    clock,              \* Instant::now(), ms
    task,               \* "running", or how playtask ended: "shutdown", "error", "panic"
    paused,             \* playtask's `paused`
    playstate,          \* playstate.by_axis: AxisId -> AxisPlaystate, for the live axes
    funscript_load_ctoken,  \* Option<CancellationToken>, a token being its number
    ctokens,            \* per token created so far: TRUE once cancelled
    last_cmd,           \* the last command handed to the stroker: "none", "stop", "move"
    ev,                 \* the message handled last and what each axis did for it
    steps,              \* how many messages playtask has handled
    hist,               \* the messages handled, in order (kept by SpecE2E only)
    \* -- the channel between the host's event loop and playtask (SpecChan)
    chan,               \* the messages in the channel, oldest first
    host,               \* the host's event loop: "running" or "returned"
    sent,               \* ids of the host events the channel accepted, in order
    handled,            \* ids of the host events playtask has taken, in order
    lost,               \* the host events whose send was refused, and why
    found,              \* tokens whose discovery task has sent its UseFunscript
    \* -- the range remap of limit_command in rounded binary arithmetic (SpecRemap)
    rm,                 \* min, max, raw target and, once computed, the remapped target
    \* -- a funscript file being loaded (SpecLoad)
    script,             \* the Funscript read and, once loaded, the NormalisedActions
    \* -- the T-Code serial device (SpecDevice, SpecEncode)
    port_in,            \* what the serial port will deliver next, in order
    port_out,           \* the lines written to the serial port, in order
    conn,               \* SerialTCodeStroker::connect: its position, locals and result
    dev_op              \* the last call made on the connected session and its result

trkVars == <<funscript, trk_op, trk_returned>>
limVars == <<limiter, lim_op, lim_commits>>
mvVars  == <<mv_in, movement>>
coVars  == <<config, clock, task, paused, playstate, funscript_load_ctoken, ctokens,
             last_cmd, ev, steps, hist>>
chVars  == <<chan, host, sent, handled, lost, found>>
rmVars  == <<rm, script>>
dvVars  == <<port_in, port_out, conn, dev_op>>
vars == <<overflow_checks, trkVars, limVars, mvVars, coVars, chVars, rmVars, dvVars>>

----------------------------------------------------------------------------
(* Bounds of the model *)

\* longest timeline
MaxLen == 3
\* most notify_commanded calls made on the limiter under test
MaxCommits == 2
\* most messages playtask handles
MaxSteps == 3
\* host events produced in one behaviour of SpecChan
MaxEvents == 5

\* most axis-enumeration items the serial port delivers during connect
MaxLines == 3
\* most commands sent on a connected session
MaxCmds == 1
\* SpecRemap's binary floating point: bits of the significand (f32 has 24) and
\* of the fraction of the finest values
SigBits == 3
FracBits == 6

(* Resolution of the fixed-point model of f32 positions *)
Unit == 1000
\* resolution of the targets of the Movements handed to the T-Code encoder
FineUnit == 100000

\* u32::MAX.  The model's machine word is 30 bits wide, the widest whose sums
\* TLC's own integers hold; wrapping arithmetic is taken modulo U32_MAX + 1.
U32_MAX == 1073741823
MAX_RAMP_TIME_MS == 9999999
\* ramp requested by a seek while paused
PAUSED_SEEK_RAMP_MS == 1000

----------------------------------------------------------------------------
(* Option<T>: None is the empty sequence, Some(x) is <<x>> *)
None == <<>>
Some(x) == <<x>>
IsSome(o) == o # <<>>
Unwrap(o) == o[1]

(* f32 values *)
F(n) == [k |-> "fin", v |-> n]
NaN == [k |-> "nan", v |-> 0]
PosInf == [k |-> "inf", v |-> 1]
NegInf == [k |-> "inf", v |-> -1]
IsFin(x) == x.k = "fin"

Abs(n) == IF n < 0 THEN -n ELSE n
Max(a, b) == IF a < b THEN b ELSE a
Min(a, b) == IF a < b THEN a ELSE b

\* n / d for d > 0, rounded to the nearest integer (ties away from zero)
RoundDiv(n, d) ==
    IF n >= 0 THEN (2 * n + d) \div (2 * d) ELSE -((2 * (-n) + d) \div (2 * d))

\* IEEE comparisons: every comparison with a NaN is false
FLt(a, b) ==
    CASE a.k = "nan" \/ b.k = "nan" -> FALSE
      [] a.k = "inf" /\ b.k = "inf" -> a.v < b.v
      [] a.k = "inf" -> a.v < 0
      [] b.k = "inf" -> b.v > 0
      [] OTHER -> a.v < b.v
FLe(a, b) ==
    CASE a.k = "nan" \/ b.k = "nan" -> FALSE
      [] a.k = "inf" /\ b.k = "inf" -> a.v <= b.v
      [] a.k = "inf" -> a.v < 0
      [] b.k = "inf" -> b.v > 0
      [] OTHER -> a.v <= b.v

\* a + b, a - b and a * b on finite values and NaN (the limiter meets no infinity)
FAdd(a, b) == IF IsFin(a) /\ IsFin(b) THEN F(a.v + b.v) ELSE NaN
FSub(a, b) == IF IsFin(a) /\ IsFin(b) THEN F(a.v - b.v) ELSE NaN
FMul(a, b) == IF IsFin(a) /\ IsFin(b) THEN F(RoundDiv(a.v * b.v, Unit)) ELSE NaN

\* f32::clamp(x, 0.0, 1.0): a NaN stays a NaN
FClamp01(x) ==
    IF ~IsFin(x) THEN x ELSE IF x.v < 0 THEN F(0) ELSE IF x.v > Unit THEN F(Unit) ELSE x

----------------------------------------------------------------------------
(* strokers_core: Movement *)

Movement_new_noRampCheck(axis, target, ramp_time_milliseconds) ==
    IF ~(FLe(F(0), target) /\ FLe(target, F(Unit))) THEN None
    ELSE IF ~IsFin(target) THEN None
    ELSE Some([axis |-> axis, target |-> target,
               ramp_time_milliseconds |-> ramp_time_milliseconds])

Movement_new(axis, target, ramp_time_milliseconds) ==
    IF ~(FLe(F(0), target) /\ FLe(target, F(Unit))) THEN None
    ELSE IF ~IsFin(target) THEN None
    ELSE IF ramp_time_milliseconds > MAX_RAMP_TIME_MS THEN None
    ELSE Some([axis |-> axis, target |-> target,
               ramp_time_milliseconds |-> ramp_time_milliseconds])

----------------------------------------------------------------------------
(* strokers_funscript: FunscriptPlaystate *)

NormalisedAction(at, norm_pos) == [at |-> at, norm_pos |-> norm_pos]

FunscriptPlaystate_new(normalised_actions) ==
    [normalised_actions |-> normalised_actions,
     next_index |-> 0,
     next_tick_at |-> Some(0)]

\* slice::binary_search_by_key on a list sorted by `at`: the index of a match (any
\* one of them when several match), or else the index where the key would be
\* inserted.  Indices are 0-based as in the source.
binary_search_by_key(actions, key) ==
    LET hits == {i \in 1..Len(actions) : actions[i].at = key}
    IN  IF hits # {} THEN {i - 1 : i \in hits}
        ELSE {Cardinality({i \in 1..Len(actions) : actions[i].at < key})}

\* seek: the set of outcomes.  `panic` is set when an integer overflow check
\* fires: `time_milliseconds + 1` before the search (next_index not yet
\* assigned), or `idx_new - 1` after it.  Without overflow checks both wrap.
FunscriptPlaystate_seek(fs, time_milliseconds) ==
    LET due == [fs EXCEPT !.next_tick_at = Some(time_milliseconds)]
        key == IF time_milliseconds = U32_MAX THEN 0 ELSE time_milliseconds + 1
    IN  IF overflow_checks /\ time_milliseconds = U32_MAX
        THEN {[fs |-> due, panic |-> TRUE]}
        ELSE {[fs |-> [due EXCEPT !.next_index = idx],
               panic |-> overflow_checks /\ idx = 0] :
                 idx \in binary_search_by_key(fs.normalised_actions, key)}

FunscriptPlaystate_tick_replayExhausted(fs, time_milliseconds) ==
    LET n == Len(fs.normalised_actions)
        i == IF fs.next_index >= n THEN n - 1 ELSE fs.next_index
    IN  IF ~IsSome(fs.next_tick_at) \/ n = 0 THEN [fs |-> fs, ret |-> None]
        ELSE IF time_milliseconds < Unwrap(fs.next_tick_at) THEN [fs |-> fs, ret |-> None]
        ELSE [fs |-> [fs EXCEPT !.next_index = i + 1,
                                !.next_tick_at = Some(fs.normalised_actions[i + 1].at)],
              ret |-> Some(fs.normalised_actions[i + 1])]

FunscriptPlaystate_tick_dueNow(fs, time_milliseconds) ==
    IF ~IsSome(fs.next_tick_at) THEN [fs |-> fs, ret |-> None]
    ELSE IF time_milliseconds < Unwrap(fs.next_tick_at) THEN [fs |-> fs, ret |-> None]
    ELSE IF fs.next_index >= Len(fs.normalised_actions) THEN [fs |-> fs, ret |-> None]
    ELSE LET next_action == fs.normalised_actions[fs.next_index + 1]
         IN  [fs |-> [fs EXCEPT !.next_index = fs.next_index + 1,
                                !.next_tick_at = Some(time_milliseconds)],
              ret |-> Some(next_action)]

\* tick: the new tracker and the Option<NormalisedAction> returned
FunscriptPlaystate_tick(fs, time_milliseconds) ==
    IF ~IsSome(fs.next_tick_at) THEN [fs |-> fs, ret |-> None]
    ELSE IF time_milliseconds < Unwrap(fs.next_tick_at) THEN [fs |-> fs, ret |-> None]
    ELSE IF fs.next_index >= Len(fs.normalised_actions) THEN [fs |-> fs, ret |-> None]
    ELSE LET next_action == fs.normalised_actions[fs.next_index + 1]
         IN  [fs |-> [fs EXCEPT !.next_index = fs.next_index + 1,
                                !.next_tick_at = Some(next_action.at)],
              ret |-> Some(next_action)]

----------------------------------------------------------------------------
(* strokers_for_mpv/playstate.rs: AxisLimiter *)

AxisLimiter_new(speed_limit, min, max, now) ==
    [speed_limit |-> speed_limit,
     last_command_start_time |-> now,
     last_command_start |-> F(Unit \div 2),
     last_command_target_time |-> now,
     last_command_target |-> F(Unit \div 2),
     min |-> min,
     max |-> max]

\* start + (target - start) * proportion_complete, the product rounded
Interpolate(l, now) ==
    LET start == l.last_command_start
        target == l.last_command_target
    IN  IF IsFin(start) /\ IsFin(target)
        THEN F(start.v + RoundDiv((target.v - start.v) * (now - l.last_command_start_time),
                                  l.last_command_target_time - l.last_command_start_time))
        ELSE NaN

estimate_current_position(l, now) ==
    IF l.last_command_target_time < now THEN l.last_command_target
    ELSE IF l.last_command_start_time < now THEN Interpolate(l, now)
    ELSE l.last_command_start

\* delta * (speed_limit / speed_abs) where speed_abs = |delta| / (d * 0.001):
\* 0 / 0 is a NaN; otherwise sign(delta) * speed_limit * d / 1000, rounded
ScaledDelta(delta, speed_limit, d) ==
    IF ~IsFin(delta) \/ ~IsFin(speed_limit) THEN NaN
    ELSE IF delta.v = 0 THEN NaN
    ELSE IF delta.v > 0 THEN F(RoundDiv(speed_limit.v * d, 1000))
    ELSE F(-RoundDiv(speed_limit.v * d, 1000))

\* speed_abs < speed_limit, with speed_abs = |delta| / (d * 0.001), that is
\* |delta| * 1000 / d < speed_limit (the quotient's floor decides, the limit
\* being a whole number of units)
SpeedBelowLimit(delta, speed_limit, d) ==
    IsFin(delta) /\ IsFin(speed_limit) /\ (Abs(delta.v) * 1000) \div d < speed_limit.v

\* <<target, duration_millis>> after the range remap and the speed limit
limit_command(l, now, target, duration_millis) ==
    LET cur_pos == estimate_current_position(l, now)
        remapped == FAdd(l.min, FMul(FSub(l.max, l.min), target))
        delta == FSub(remapped, cur_pos)
        d == Max(duration_millis, 1)
    IN  IF SpeedBelowLimit(delta, l.speed_limit, d)
        THEN <<remapped, duration_millis>>
        ELSE <<FAdd(cur_pos, ScaledDelta(delta, l.speed_limit, d)), duration_millis>>

notify_commanded(l, now, target, duration_millis) ==
    [l EXCEPT !.last_command_start = estimate_current_position(l, now),
              !.last_command_start_time = now,
              !.last_command_target = target,
              !.last_command_target_time = now + duration_millis]

----------------------------------------------------------------------------
(* strokers_for_mpv/playstate.rs: AxisPlaystate *)

AxisPlaystate_new(normalised_actions, speed_limit, min, max, now) ==
    [funscript |-> FunscriptPlaystate_new(normalised_actions),
     limiter |-> AxisLimiter_new(speed_limit, min, max, now)]

\* what tick or seek did for one axis: kind is "none" (no action due), "stale"
\* (action dropped), "dispatched" (Movement written to the device),
\* "ctor_failed" (Movement::new returned None), "write_failed" (the device
\* write returned an error) or "panic" (an overflow check fired)
AxisResult(kind, at, requested, target, ramp) ==
    [kind |-> kind, at |-> at, requested |-> requested, target |-> target, ramp |-> ramp]
NoResult(kind) == AxisResult(kind, 0, 0, F(0), 0)

\* limit_command, notify_commanded, Movement::new, stroker.movement: in this order
CommandAxis(ap, action, orig_target_duration, axis_id, now, write_ok) ==
    LET lc == limit_command(ap.limiter, now, action.norm_pos, orig_target_duration)
        mv == Movement_new(axis_id, lc[1], lc[2])
    IN  [ap |-> [ap EXCEPT !.limiter = notify_commanded(ap.limiter, now, lc[1], lc[2])],
         res |-> AxisResult(IF ~IsSome(mv) THEN "ctor_failed"
                            ELSE IF ~write_ok THEN "write_failed" ELSE "dispatched",
                            action.at, orig_target_duration, lc[1], lc[2])]

AxisPlaystate_tick_keepStale(ap, now_millis, axis_id, now, write_ok) ==
    LET r == FunscriptPlaystate_tick(ap.funscript, now_millis)
        ticked == [ap EXCEPT !.funscript = r.fs]
    IN  IF ~IsSome(r.ret) THEN [ap |-> ticked, res |-> NoResult("none")]
        ELSE CommandAxis(ticked, Unwrap(r.ret),
                         IF Unwrap(r.ret).at < now_millis THEN 0
                         ELSE Unwrap(r.ret).at - now_millis,
                         axis_id, now, write_ok)

AxisPlaystate_tick(ap, now_millis, axis_id, now, write_ok) ==
    LET r == FunscriptPlaystate_tick(ap.funscript, now_millis)
        ticked == [ap EXCEPT !.funscript = r.fs]
    IN  IF ~IsSome(r.ret) THEN [ap |-> ticked, res |-> NoResult("none")]
        ELSE IF Unwrap(r.ret).at < now_millis
        THEN [ap |-> ticked, res |-> AxisResult("stale", Unwrap(r.ret).at, 0, F(0), 0)]
        ELSE CommandAxis(ticked, Unwrap(r.ret), Unwrap(r.ret).at - now_millis,
                         axis_id, now, write_ok)

\* the set of outcomes of seek for one axis (one per outcome of the search)
AxisPlaystate_seek(ap, now_millis, is_paused, axis_id, now, write_ok) ==
    {LET r == FunscriptPlaystate_tick(s.fs, now_millis)
         ticked == [ap EXCEPT !.funscript = r.fs]
     IN  IF s.panic THEN [ap |-> [ap EXCEPT !.funscript = s.fs], res |-> NoResult("panic")]
         ELSE IF ~IsSome(r.ret) THEN [ap |-> ticked, res |-> NoResult("none")]
         ELSE IF is_paused
         THEN CommandAxis(ticked, Unwrap(r.ret), PAUSED_SEEK_RAMP_MS, axis_id, now, write_ok)
         ELSE IF Unwrap(r.ret).at >= now_millis
         THEN CommandAxis(ticked, Unwrap(r.ret), Unwrap(r.ret).at - now_millis,
                          axis_id, now, write_ok)
         ELSE IF overflow_checks
         THEN [ap |-> ticked, res |-> AxisResult("panic", Unwrap(r.ret).at, 0, F(0), 0)]
         ELSE CommandAxis(ticked, Unwrap(r.ret),
                          Unwrap(r.ret).at + (U32_MAX - now_millis) + 1,
                          axis_id, now, write_ok)
       : s \in FunscriptPlaystate_seek(ap.funscript, now_millis)}

----------------------------------------------------------------------------
(* Inputs the harness specifications draw from *)

\* timestamps (ms) of timeline actions; 1 and 501 are the search keys of
\* seek(0) and seek(500)
AtSet == {0, 1, 500, 501, 1000}
\* playback times handed to seek and tick
TimeSet == {0, 500, 1000, U32_MAX}
PosSet == {F(0), F(Unit)}

IsSortedByAt(s) == \A i \in 1..Len(s) : \A j \in i..Len(s) : s[i].at <= s[j].at

Timelines(ats, poss) ==
    {s \in UNION {[1..n -> [at : ats, norm_pos : poss]] : n \in 0..MaxLen} : IsSortedByAt(s)}

Idle == [op |-> "none"]

MovementIdle == mv_in = <<0, F(0), 0>> /\ movement = [called |-> FALSE]
TrackerIdle ==
    funscript = FunscriptPlaystate_new(<<>>) /\ trk_op = Idle /\ trk_returned = <<>>
LimiterIdle ==
    limiter = AxisLimiter_new(F(0), F(0), F(0), 0) /\ lim_op = Idle /\ lim_commits = 0
ChanIdle ==
    /\ chan = <<>> /\ host = "running" /\ sent = <<>> /\ handled = <<>>
    /\ lost = {} /\ found = {}
RemapIdle == rm = [called |-> FALSE]
ScriptIdle == script = [called |-> FALSE]
DeviceIdle ==
    /\ port_in = <<>> /\ port_out = <<>>
    /\ conn = [pc |-> "idle"] /\ dev_op = Idle
PlaytaskIdle ==
    /\ config = <<>> /\ clock = 0 /\ task = "running" /\ paused = FALSE
    /\ playstate = <<>> /\ funscript_load_ctoken = None /\ ctokens = <<>>
    /\ last_cmd = "none" /\ ev = [msg |-> [type |-> "None"], outs |-> <<>>]
    /\ steps = 0 /\ hist = <<>>
    /\ ChanIdle

----------------------------------------------------------------------------
(* SpecMovement: Movement::new applied to every argument triple *)

InitMovement ==
    /\ overflow_checks \in BOOLEAN
    /\ mv_in \in {0, 1}
                 \X {NaN, PosInf, NegInf, F(-1), F(0), F(1), F(Unit \div 2),
                     F(Unit - 1), F(Unit), F(Unit + 1)}
                 \X {0, 42, MAX_RAMP_TIME_MS - 1, MAX_RAMP_TIME_MS,
                     MAX_RAMP_TIME_MS + 1, U32_MAX}
    /\ movement = [called |-> FALSE]
    /\ TrackerIdle /\ LimiterIdle /\ PlaytaskIdle /\ RemapIdle /\ ScriptIdle /\ DeviceIdle

Construct ==
    /\ ~movement.called
    /\ movement' = [called |-> TRUE, ret |-> Movement_new(mv_in[1], mv_in[2], mv_in[3])]
    /\ UNCHANGED <<overflow_checks, rmVars, dvVars, mv_in, trkVars, limVars, coVars, chVars>>

SpecMovement == InitMovement /\ [][Construct]_vars

----------------------------------------------------------------------------
(* SpecTracker: seek and tick called in any order on a fresh tracker *)

InitTracker ==
    /\ overflow_checks \in BOOLEAN
    /\ funscript \in {FunscriptPlaystate_new(a) : a \in Timelines(AtSet, PosSet)}
    /\ trk_op = Idle
    /\ trk_returned = <<>>
    /\ MovementIdle /\ LimiterIdle /\ PlaytaskIdle /\ RemapIdle /\ ScriptIdle /\ DeviceIdle

\* a panic ends the thread: nothing is called on the tracker afterwards
TrackerAlive == IF trk_op.op = "none" THEN TRUE ELSE ~trk_op.panic

Seek(t) ==
    /\ TrackerAlive
    /\ \E r \in FunscriptPlaystate_seek(funscript, t) :
         /\ funscript' = r.fs
         /\ trk_op' = [op |-> "seek", t |-> t, pre |-> funscript, ret |-> None,
                       panic |-> r.panic]
    /\ trk_returned' = <<>>
    /\ UNCHANGED <<overflow_checks, rmVars, dvVars, mvVars, limVars, coVars, chVars>>

Tick(t) ==
    /\ TrackerAlive
    /\ LET r == FunscriptPlaystate_tick(funscript, t)
       IN  /\ funscript' = r.fs
           /\ trk_op' = [op |-> "tick", t |-> t, pre |-> funscript, ret |-> r.ret,
                         panic |-> FALSE]
           /\ trk_returned' = IF IsSome(r.ret) THEN Append(trk_returned, r.fs.next_index - 1)
                              ELSE trk_returned
    /\ UNCHANGED <<overflow_checks, rmVars, dvVars, mvVars, limVars, coVars, chVars>>

NextTracker == \E t \in TimeSet : Seek(t) \/ Tick(t)

SpecTracker == InitTracker /\ [][NextTracker]_vars

----------------------------------------------------------------------------
(* SpecLimiter: limit_command called with any arguments on a limiter built by *)
(* AxisLimiter::new, and notify_commanded called with what it returned        *)

LimNows == {0, 500, 1000}

InitLimiter ==
    /\ overflow_checks \in BOOLEAN
    \* <<min, max>>: the built-in default, the full range, and both inverted
    /\ limiter \in {AxisLimiter_new(s, r[1], r[2], 0) :
                        s \in {F(0), F(Unit \div 4), F(2 * Unit)},
                        r \in {<<F((2 * Unit) \div 5), F((3 * Unit) \div 5)>>,
                               <<F(0), F(Unit)>>, <<F(Unit), F(0)>>,
                               <<F((3 * Unit) \div 5), F((2 * Unit) \div 5)>>}}
    /\ lim_op = Idle
    /\ lim_commits = 0
    /\ MovementIdle /\ TrackerIdle /\ PlaytaskIdle /\ RemapIdle /\ ScriptIdle /\ DeviceIdle

\* limit_command(now, target, duration): reads the limiter, changes nothing
LimitCommand(now, target, duration_millis) ==
    /\ lim_op' = [op |-> "limit_command", now |-> now, target |-> target,
                  duration_millis |-> duration_millis,
                  cur_pos |-> estimate_current_position(limiter, now),
                  out |-> limit_command(limiter, now, target, duration_millis)]
    /\ UNCHANGED <<overflow_checks, rmVars, dvVars, limiter, lim_commits, mvVars, trkVars, coVars, chVars>>

\* notify_commanded(now, target, duration) with what limit_command just returned,
\* as AxisPlaystate::tick and ::seek call it
Commit ==
    /\ lim_op.op = "limit_command"
    /\ lim_commits < MaxCommits
    /\ limiter' = notify_commanded(limiter, lim_op.now, lim_op.out[1], lim_op.out[2])
    /\ lim_op' = [op |-> "notify_commanded", now |-> lim_op.now, target |-> lim_op.out[1],
                  duration_millis |-> lim_op.out[2], pre |-> limiter]
    /\ lim_commits' = lim_commits + 1
    /\ UNCHANGED <<overflow_checks, rmVars, dvVars, mvVars, trkVars, coVars, chVars>>

\* estimate_current_position(now): reads the limiter, changes nothing
Estimate(now) ==
    /\ lim_op' = [op |-> "estimate", now |-> now,
                  out |-> estimate_current_position(limiter, now)]
    /\ UNCHANGED <<overflow_checks, rmVars, dvVars, limiter, lim_commits, mvVars, trkVars, coVars, chVars>>

NextLimiter ==
    \/ \E now \in LimNows, target \in {F(0), F(Unit \div 2), F(Unit)}, d \in {0, 1000} :
          LimitCommand(now, target, d)
    \/ Commit
    \/ \E now \in LimNows : Estimate(now)

SpecLimiter == InitLimiter /\ [][NextLimiter]_vars

----------------------------------------------------------------------------
(* SpecRemap: the range remap of limit_command, self.min + (self.max - self.min)
   * target, with the rounding of each f32 operation.  The fixed-point numbers
   above round to a fixed grid; an f32 rounds to SigBits significant bits, so
   that max - min is rounded more coarsely than min.  Values here are integers
   counting 2^-FracBits. *)

FpOne == 2 ^ FracBits

\* the spacing of the representable values around magnitude n
RECURSIVE FpUlp(_, _)
FpUlp(n, u) == IF n \div u < 2 ^ SigBits THEN u ELSE FpUlp(n, 2 * u)

\* num / den (den > 0) rounded to the nearest representable value, ties to even
FpRound(num, den) ==
    LET a == Abs(num)
        u == FpUlp(a \div den, 1)
        q == a \div (den * u)
        r == a % (den * u)
        up == IF 2 * r > den * u THEN q + 1
              ELSE IF 2 * r = den * u THEN q + (q % 2)
              ELSE q
    IN  IF num < 0 THEN -(up * u) ELSE up * u

FpAdd(a, b) == FpRound(a + b, 1)
FpSub(a, b) == FpRound(a - b, 1)
FpMul(a, b) == FpRound(a * b, FpOne)

\* the f32 values of [0, 1]
FpUnitInterval == {n \in 0..FpOne : FpRound(n, 1) = n}

\* let target = self.min + (self.max - self.min) * target;
remap(min, max, target) == FpAdd(min, FpMul(FpSub(max, min), target))

InitRemap ==
    /\ overflow_checks \in BOOLEAN
    /\ rm \in [called : {FALSE}, min : FpUnitInterval, max : FpUnitInterval,
               target : FpUnitInterval]
    /\ MovementIdle /\ TrackerIdle /\ LimiterIdle /\ PlaytaskIdle /\ ScriptIdle /\ DeviceIdle

Remap ==
    /\ ~rm.called
    /\ rm' = [rm EXCEPT !.called = TRUE] @@ [out |-> remap(rm.min, rm.max, rm.target)]
    /\ UNCHANGED <<overflow_checks, script, dvVars, mvVars, trkVars, limVars, coVars, chVars>>

SpecRemap == InitRemap /\ [][Remap]_vars

----------------------------------------------------------------------------
(* SpecGlide: notify_commanded, and estimate_current_position on the record it
   wrote, with the rounding of each f32 operation as in SpecRemap.  rm holds
   the four fields of the AxisLimiter that the estimate reads, the instant of
   the last call, and the estimate made just before it. *)

\* estimate_current_position; proportion_complete is the f64 quotient cast to f32
estimate_current_position_f32(l, now) ==
    IF l.last_command_target_time < now THEN l.last_command_target
    ELSE IF l.last_command_start_time < now
    THEN LET proportion_complete ==
                 FpRound((now - l.last_command_start_time) * FpOne,
                         l.last_command_target_time - l.last_command_start_time)
         IN  FpAdd(l.last_command_start,
                   FpMul(FpSub(l.last_command_target, l.last_command_start),
                         proportion_complete))
    ELSE l.last_command_start

notify_commanded_f32(l, now, target, duration_millis) ==
    [l EXCEPT !.last_command_start = estimate_current_position_f32(l, now),
              !.last_command_start_time = now,
              !.last_command_target = target,
              !.last_command_target_time = now + duration_millis]

\* AxisLimiter::new at instant 0
InitGlide ==
    /\ overflow_checks \in BOOLEAN
    /\ rm = [called |-> FALSE, now |-> 0,
             limiter |-> [last_command_start_time |-> 0,
                          last_command_start |-> FpOne \div 2,
                          last_command_target_time |-> 0,
                          last_command_target |-> FpOne \div 2]]
    /\ MovementIdle /\ TrackerIdle /\ LimiterIdle /\ PlaytaskIdle /\ ScriptIdle /\ DeviceIdle

\* notify_commanded(now, target, duration) at an instant not before the last one
Glide(now, target, duration_millis) ==
    /\ rm.now <= now
    /\ rm' = [called |-> TRUE, now |-> now,
              limiter |-> notify_commanded_f32(rm.limiter, now, target, duration_millis),
              before |-> estimate_current_position_f32(rm.limiter, now),
              target |-> target, duration_millis |-> duration_millis]
    /\ UNCHANGED <<overflow_checks, script, dvVars, mvVars, trkVars, limVars, coVars, chVars>>

SpecGlide ==
    InitGlide /\ [][\E now \in 0..3, target \in FpUnitInterval, d \in {1, 2, 4} :
                      Glide(now, target, d)]_vars

----------------------------------------------------------------------------
(* SpecLoad: strokers_funscript schema.rs and processing.rs.  A Funscript read
   from a file is fixed up and normalised, as search_for_funscripts does before
   it sends UseFunscript.  pos and range are integers as in the file. *)

\* Funscript::fixup: a range that is unset (zero) becomes the largest pos, at
\* least 100
Funscript_fixup(fs) ==
    IF fs.range = 0
    THEN LET most == IF fs.actions = <<>> THEN 100
                     ELSE CHOOSE x \in {fs.actions[i].pos : i \in DOMAIN fs.actions} :
                             \A i \in DOMAIN fs.actions : fs.actions[i].pos <= x
         IN  [fs EXCEPT !.range = Max(most, 100)]
    ELSE fs

normalised_from_funscript_byRange(fs) ==
    [i \in DOMAIN fs.actions |->
        LET ratio == F(RoundDiv(fs.actions[i].pos * Unit, fs.range))
        IN  NormalisedAction(fs.actions[i].at,
                             IF fs.inverted THEN FSub(F(Unit), ratio) ELSE ratio)]

\* normalised_from_funscript: pos / 100.0, or 1.0 - pos / 100.0 when inverted
normalised_from_funscript(fs) ==
    [i \in DOMAIN fs.actions |->
        LET ratio == F(RoundDiv(fs.actions[i].pos * Unit, 100))
        IN  NormalisedAction(fs.actions[i].at,
                             IF fs.inverted THEN FSub(F(Unit), ratio) ELSE ratio)]

\* files of up to MaxLen actions: pos 0, 25, 100 and one past 100; range unset,
\* 90 and 100; either inversion flag
InitLoad ==
    /\ overflow_checks \in BOOLEAN
    /\ script \in
          {[called |-> FALSE, funscript |-> [actions |-> a, inverted |-> inv, range |-> r]] :
              a \in UNION {[1..n -> [at : {0, 500}, pos : {0, 25, 100, 150}]] : n \in 0..MaxLen},
              inv \in BOOLEAN, r \in {0, 90, 100}}
    /\ MovementIdle /\ TrackerIdle /\ LimiterIdle /\ PlaytaskIdle /\ RemapIdle /\ DeviceIdle

\* funscript.fixup(); let normalised_actions = normalised_from_funscript(&funscript);
Load ==
    /\ ~script.called
    /\ script' = [called |-> TRUE, read |-> script.funscript,
                  funscript |-> Funscript_fixup(script.funscript),
                  out |-> normalised_from_funscript(Funscript_fixup(script.funscript))]
    /\ UNCHANGED <<overflow_checks, rm, dvVars, mvVars, trkVars, limVars, coVars, chVars>>

SpecLoad == InitLoad /\ [][Load]_vars

----------------------------------------------------------------------------
(* strokers_device_tcode: tcode.rs.  A line of text is a sequence of tokens,
   " " being the separator; a number is written with the digits "0".."9". *)

\* s.split(" "): the fields between the separators, empty ones included
RECURSIVE Split(_)
Split(s) ==
    IF s = <<>> THEN <<"">>
    ELSE IF Head(s) = " " THEN <<"">> \o Split(Tail(s))
    ELSE IF Len(s) = 1 THEN <<Head(s)>>
    ELSE <<Head(s)>> \o Split(Tail(Tail(s)))

\* str::parse::<u16>() on the fields the model uses: the decimal texts of
\* 0..65535 parse, nothing else does
ParseU16(field) ==
    IF field = "0" THEN Some(0) ELSE IF field = "9999" THEN Some(9999) ELSE None

\* DiscoveredAxisInfo::from_str: Some(axis), or None for an Err
DiscoveredAxisInfo_from_str_noFieldCount(s) ==
    LET splits == Split(s)
    IN  IF Len(splits) < 3 THEN None
        ELSE IF ~IsSome(ParseU16(splits[2])) THEN None
        ELSE IF ~IsSome(ParseU16(splits[3])) THEN None
        ELSE Some([tcode_axis_name |-> splits[1],
                   preferred_min |-> Unwrap(ParseU16(splits[2])),
                   preferred_max |-> Unwrap(ParseU16(splits[3])),
                   identified_name |-> IF Len(splits) < 4 THEN "" ELSE splits[4]])

DiscoveredAxisInfo_from_str(s) ==
    LET splits == Split(s)
    IN  IF Len(splits) < 4 THEN None
        ELSE IF ~IsSome(ParseU16(splits[2])) THEN None
        ELSE IF ~IsSome(ParseU16(splits[3])) THEN None
        ELSE Some([tcode_axis_name |-> splits[1],
                   preferred_min |-> Unwrap(ParseU16(splits[2])),
                   preferred_max |-> Unwrap(ParseU16(splits[3])),
                   identified_name |-> splits[4]])

DigitChar == <<"0", "1", "2", "3", "4", "5", "6", "7", "8", "9">>

\* the decimal digits of n, most significant first
RECURSIVE Digits(_)
Digits(n) ==
    IF n < 10 THEN <<DigitChar[n + 1]>>
    ELSE Digits(n \div 10) \o <<DigitChar[(n % 10) + 1]>>

\* format!("{n:04}"): zero-padded to a width of at least 4
RECURSIVE ZeroPad(_, _)
ZeroPad(digits, width) ==
    IF Len(digits) >= width THEN digits ELSE ZeroPad(<<"0">> \o digits, width)
Format04(n) == ZeroPad(Digits(n), 4)

\* (movement.target() * 10000.0) as u16: the product truncated
TargetTimes10000(target) == (target.v * 10000) \div FineUnit

movement_to_tcode_noClamp(axis_map, mvmt) ==
    IF mvmt.axis \notin DOMAIN axis_map THEN None
    ELSE LET axis_name == axis_map[mvmt.axis].tcode_axis_name
             target_int == TargetTimes10000(mvmt.target)
             ramp_int == mvmt.ramp_time_milliseconds
         IN  Some(<<axis_name>> \o Format04(target_int) \o <<"I">> \o Format04(ramp_int))

movement_to_tcode_defaultAxis(axis_map, mvmt) ==
    LET axis_name == IF mvmt.axis \in DOMAIN axis_map
                     THEN axis_map[mvmt.axis].tcode_axis_name ELSE "L0"
        target_int == Min(TargetTimes10000(mvmt.target), 9999)
        ramp_int == mvmt.ramp_time_milliseconds
    IN  Some(<<axis_name>> \o Format04(target_int) \o <<"I">> \o Format04(ramp_int))

\* movement_to_tcode: Some(command), or None for the Err "no such axis"
movement_to_tcode(axis_map, mvmt) ==
    IF mvmt.axis \notin DOMAIN axis_map THEN None
    ELSE LET axis_name == axis_map[mvmt.axis].tcode_axis_name
             target_int == Min(TargetTimes10000(mvmt.target), 9999)
             ramp_int == mvmt.ramp_time_milliseconds
         IN  Some(<<axis_name>> \o Format04(target_int) \o <<"I">> \o Format04(ramp_int))

----------------------------------------------------------------------------
(* strokers_device_tcode: serial.rs.  What the serial port delivers is a line,
   a read error, or the end of the stream; nothing left to deliver is silence. *)

Line(text) == [kind |-> "line", text |-> text]
ReadError == [kind |-> "err", text |-> <<>>]
EndOfStream == [kind |-> "eof", text |-> <<>>]

\* the locals of connect before its first statement
ConnStart ==
    [pc |-> "open", d0_resp |-> None, d1_resp |-> None, axis_map |-> <<>>,
     axis_id_generator |-> 0, error |-> None, log |-> <<>>, lines |-> <<>>]

\* `?` on an Err: connect returns the error, no SerialTCodeStroker is made
Fail(context) == conn' = [conn EXCEPT !.pc = "failed", !.error = Some(context)]

Logged(c, event) == [c EXCEPT !.log = Append(@, event)]

notDevice == <<overflow_checks, rmVars, mvVars, trkVars, limVars, coVars, chVars>>

\* SerialPort::open(serial_port_path, baud)
Open ==
    /\ conn.pc = "open"
    /\ \/ conn' = [conn EXCEPT !.pc = "discard"]
       \/ Fail("failed to open serial port")
    /\ UNCHANGED <<port_in, port_out, dev_op, notDevice>>

\* serial_port.discard_buffers()
DiscardBuffers ==
    /\ conn.pc = "discard"
    /\ \/ conn' = [conn EXCEPT !.pc = "send_d0"]
       \/ Fail("failed to discard buffers")
    /\ UNCHANGED <<port_in, port_out, dev_op, notDevice>>

\* the .context(..) texts of connect, by query
Context ==
    [send |-> [D0 |-> "failed to send D0 command", D1 |-> "failed to send D1 command",
               D2 |-> "failed to send D2 command"],
     end |-> [D0 |-> "end of stream on D0 command", D1 |-> "end of stream on D1 command"],
     read |-> [D0 |-> "failed to read D0 response", D1 |-> "failed to read D1 response"]]

\* line_codec.send(query).await?
SendQuery(query, from, to) ==
    /\ conn.pc = from
    /\ \/ /\ port_out' = Append(port_out, <<query>>)
          /\ conn' = Logged([conn EXCEPT !.pc = to], [e |-> "send", what |-> query])
       \/ Fail(Context.send[query]) /\ UNCHANGED port_out
    /\ UNCHANGED <<port_in, dev_op, notDevice>>

\* line_codec.next().await: waits for the port to deliver something; end of
\* stream and read error are both errors of connect
ReadReply_tolerant(query, from, to) ==
    /\ conn.pc = from
    /\ port_in # <<>>
    /\ port_in' = Tail(port_in)
    /\ conn' = Logged(IF query = "D0"
                      THEN [conn EXCEPT !.pc = to, !.d0_resp = Some(Head(port_in).text)]
                      ELSE [conn EXCEPT !.pc = to, !.d1_resp = Some(Head(port_in).text)],
                      [e |-> "read", what |-> query])
    /\ UNCHANGED <<port_out, dev_op, notDevice>>

ReadReply(query, from, to) ==
    /\ conn.pc = from
    /\ port_in # <<>>
    /\ port_in' = Tail(port_in)
    /\ IF Head(port_in).kind = "line"
       THEN conn' = Logged(IF query = "D0"
                           THEN [conn EXCEPT !.pc = to, !.d0_resp = Some(Head(port_in).text)]
                           ELSE [conn EXCEPT !.pc = to, !.d1_resp = Some(Head(port_in).text)],
                           [e |-> "read", what |-> query])
       ELSE IF Head(port_in).kind = "eof" THEN Fail(Context.end[query])
       ELSE Fail(Context.read[query])
    /\ UNCHANGED <<port_out, dev_op, notDevice>>

ReadD0_notAwaited ==
    /\ conn.pc = "read_d0"
    /\ conn' = [conn EXCEPT !.pc = "send_d1"]
    /\ UNCHANGED <<port_in, port_out, dev_op, notDevice>>

ReadD0 == ReadReply("D0", "read_d0", "send_d1")

\* one turn of the loop over the D2 response lines, the port delivering an item
\* within the timeout; conn.lines keeps what the loop took from the port
ReadAxisLine_countParsedOnly ==
    /\ conn.pc = "enumerate"
    /\ port_in # <<>>
    /\ port_in' = Tail(port_in)
    /\ LET item == Head(port_in)
           axis == DiscoveredAxisInfo_from_str(item.text)
           taken == [conn EXCEPT !.lines = Append(@, item)]
       IN  IF item.kind = "eof" THEN conn' = [taken EXCEPT !.pc = "connected"]
           ELSE IF item.kind = "err"
           THEN conn' = [taken EXCEPT !.pc = "failed",
                                      !.error = Some("failed to read line")]
           ELSE conn' = Logged(
                  [taken EXCEPT
                      !.axis_map = IF IsSome(axis)
                                   THEN (conn.axis_id_generator :> Unwrap(axis)) @@ @
                                   ELSE @,
                      !.axis_id_generator = IF IsSome(axis) THEN @ + 1 ELSE @],
                  [e |-> "read", what |-> "axis"])
    /\ UNCHANGED <<port_out, dev_op, notDevice>>

ReadAxisLine ==
    /\ conn.pc = "enumerate"
    /\ port_in # <<>>
    /\ port_in' = Tail(port_in)
    /\ LET item == Head(port_in)
           axis == DiscoveredAxisInfo_from_str(item.text)
           taken == [conn EXCEPT !.lines = Append(@, item)]
       IN  IF item.kind = "eof" THEN conn' = [taken EXCEPT !.pc = "connected"]
           ELSE IF item.kind = "err"
           THEN conn' = [taken EXCEPT !.pc = "failed",
                                      !.error = Some("failed to read line")]
           ELSE conn' = Logged(
                  [taken EXCEPT
                      !.axis_map = IF IsSome(axis)
                                   THEN (conn.axis_id_generator :> Unwrap(axis)) @@ @
                                   ELSE @,
                      !.axis_id_generator = @ + 1],
                  [e |-> "read", what |-> "axis"])
    /\ UNCHANGED <<port_out, dev_op, notDevice>>

\* the 200 ms timeout elapses before the port delivers anything more: the loop
\* ends and connect returns the SerialTCodeStroker
EnumerationTimeout ==
    /\ conn.pc = "enumerate"
    /\ conn' = [conn EXCEPT !.pc = "connected"]
    /\ UNCHANGED <<port_in, port_out, dev_op, notDevice>>

\* a Movement as Movement::new returns it (target counted in 1/FineUnit)
Mv(axis, target, ramp) == [axis |-> axis, target |-> F(target), ramp_time_milliseconds |-> ramp]

\* the calls made on the session so far
Commands == Len(SelectSeq(conn.log, LAMBDA x : x.e = "command"))

\* SerialTCodeStroker::movement
SerialTCodeStroker_movement(mvmt) ==
    /\ conn.pc = "connected"
    /\ Commands < MaxCmds
    /\ LET tcode == movement_to_tcode(conn.axis_map, mvmt)
       IN  IF ~IsSome(tcode)
           THEN /\ dev_op' = [op |-> "movement", arg |-> mvmt, ok |-> FALSE,
                              error |-> "failed to encode T-Code", pre |-> conn,
                              out |-> port_out]
                /\ UNCHANGED port_out
           ELSE \/ /\ port_out' = Append(port_out, Unwrap(tcode))
                   /\ dev_op' = [op |-> "movement", arg |-> mvmt, ok |-> TRUE,
                                 error |-> "", pre |-> conn, out |-> port_out]
                \/ /\ dev_op' = [op |-> "movement", arg |-> mvmt, ok |-> FALSE,
                                 error |-> "failed to send T-Code command", pre |-> conn,
                                 out |-> port_out]
                   /\ UNCHANGED port_out
    /\ conn' = Logged(conn, [e |-> "command", what |-> "movement"])
    /\ UNCHANGED <<port_in, notDevice>>

\* SerialTCodeStroker::stop
SerialTCodeStroker_stop ==
    /\ conn.pc = "connected"
    /\ Commands < MaxCmds
    /\ \/ /\ port_out' = Append(port_out, <<"DSTOP">>)
          /\ dev_op' = [op |-> "stop", arg |-> Mv(0, 0, 0), ok |-> TRUE, error |-> "",
                        pre |-> conn, out |-> port_out]
       \/ /\ dev_op' = [op |-> "stop", arg |-> Mv(0, 0, 0), ok |-> FALSE,
                        error |-> "failed to send DSTOP command", pre |-> conn,
                        out |-> port_out]
          /\ UNCHANGED port_out
    /\ conn' = Logged(conn, [e |-> "command", what |-> "stop"])
    /\ UNCHANGED <<port_in, notDevice>>

\* the match of axes() on tcode_axis_name: the AxisKind, None for `other`
AxisKindOf(name) ==
    CASE name = "L0" -> Some("Stroke")
      [] name = "L1" -> Some("Surge")
      [] name = "L2" -> Some("Sway")
      [] name = "R0" -> Some("Twist")
      [] name = "R1" -> Some("Roll")
      [] name = "R2" -> Some("Pitch")
      [] name = "V0" -> Some("Vibration")
      [] name = "A0" -> Some("Valve")
      [] name = "A1" -> Some("Suction")
      [] name = "A2" -> Some("Lubricant")
      [] OTHER -> None

\* SerialTCodeStroker::axes: the loop over axis_map in key order, `continue`
\* on an unrecognised name
SerialTCodeStroker_axes_keepUnknown(axis_map) ==
    LET nth(k) == CHOOSE id \in DOMAIN axis_map :
                     Cardinality({j \in DOMAIN axis_map : j < id}) = k - 1
        kind(id) == AxisKindOf(axis_map[id].tcode_axis_name)
    IN  [k \in 1..Cardinality(DOMAIN axis_map) |->
            [axis_id |-> nth(k),
             axis_kind |-> IF IsSome(kind(nth(k))) THEN Unwrap(kind(nth(k))) ELSE "Stroke"]]

SerialTCodeStroker_axes(axis_map) ==
    LET pushed == {id \in DOMAIN axis_map : IsSome(AxisKindOf(axis_map[id].tcode_axis_name))}
        nth(k) == CHOOSE id \in pushed : Cardinality({j \in pushed : j < id}) = k - 1
    IN  [k \in 1..Cardinality(pushed) |->
            [axis_id |-> nth(k),
             axis_kind |-> Unwrap(AxisKindOf(axis_map[nth(k)].tcode_axis_name))]]

\* a call of axes() on the session; `again` when the call before was axes() too,
\* `prev` being what that call returned
Axes ==
    /\ conn.pc = "connected"
    /\ dev_op' = [op |-> "axes", arg |-> Mv(0, 0, 0), ok |-> TRUE, error |-> "",
                  pre |-> conn, out |-> port_out,
                  axes |-> SerialTCodeStroker_axes(conn.axis_map),
                  again |-> dev_op.op = "axes",
                  prev |-> IF dev_op.op = "axes" THEN dev_op.axes ELSE <<>>]
    /\ UNCHANGED <<conn, port_in, port_out, notDevice>>

----------------------------------------------------------------------------
(* SpecDevice: connect run against every short stream the device may deliver,
   then commands on the session it returned *)

NameLine == Line(<<"TCode", " ", "v0.3">>)
AxisL0 == Line(<<"L0", " ", "0", " ", "9999", " ", "Up">>)
AxisR0 == Line(<<"R0", " ", "0", " ", "9999", " ", "Twist">>)
\* three fields only
AxisShort == Line(<<"L1", " ", "0", " ", "9999">>)
\* a preferred min that is no number
AxisNotNumeric == Line(<<"V0", " ", "x", " ", "9999", " ", "Vibe1">>)

\* the replies to D0 and D1 (or what comes instead), then the D2 response
DeviceStreams ==
    {<<>>, <<ReadError>>, <<EndOfStream>>,
     <<NameLine>>, <<NameLine, ReadError>>, <<NameLine, EndOfStream>>}
    \cup {<<NameLine, NameLine>> \o t :
             t \in UNION {[1..k -> {AxisL0, AxisR0, AxisShort, AxisNotNumeric,
                                    ReadError, EndOfStream}] : k \in 0..MaxLines}}

InitDevice ==
    /\ overflow_checks \in BOOLEAN
    /\ port_in \in DeviceStreams
    /\ port_out = <<>>
    /\ conn = ConnStart
    /\ dev_op = Idle
    /\ MovementIdle /\ TrackerIdle /\ LimiterIdle /\ PlaytaskIdle /\ RemapIdle /\ ScriptIdle

NextDevice ==
    \/ Open
    \/ DiscardBuffers
    \/ SendQuery("D0", "send_d0", "read_d0")
    \/ ReadD0
    \/ SendQuery("D1", "send_d1", "read_d1")
    \/ ReadReply("D1", "read_d1", "send_d2")
    \/ SendQuery("D2", "send_d2", "enumerate")
    \/ ReadAxisLine
    \/ EnumerationTimeout
    \/ SerialTCodeStroker_movement(Mv(0, (3 * FineUnit) \div 4, 42))
    \/ SerialTCodeStroker_stop

SpecDevice == InitDevice /\ [][NextDevice]_vars

----------------------------------------------------------------------------
(* SpecEncode: Movements of every kind sent on a connected session *)

\* axis maps connect returns: L0 and R0; L0 after one skipped line; no axis;
\* a device with many axes
AxisMaps ==
    LET InfoL0 == Unwrap(DiscoveredAxisInfo_from_str(AxisL0.text))
        InfoR0 == Unwrap(DiscoveredAxisInfo_from_str(AxisR0.text))
        Info(name) == [InfoL0 EXCEPT !.tcode_axis_name = name]
        \* every known code, and V1 and L3, which a device may report as well
        names == <<"L0", "V1", "L1", "L2", "R0", "R1", "R2", "L3", "V0", "A0", "A1", "A2">>
    IN  {(0 :> InfoL0) @@ (1 :> InfoR0), (1 :> InfoL0), <<>>,
         [id \in 0..(Len(names) - 1) |-> Info(names[id + 1])]}

InitEncode ==
    /\ overflow_checks \in BOOLEAN
    /\ port_in = <<>>
    /\ port_out = <<<<"D0">>, <<"D1">>, <<"D2">>>>
    /\ conn \in {[ConnStart EXCEPT !.pc = "connected", !.d0_resp = Some(NameLine.text),
                                   !.d1_resp = Some(NameLine.text), !.axis_map = am,
                                   !.axis_id_generator =
                                       IF am = <<>> THEN 0
                                       ELSE 1 + CHOOSE i \in DOMAIN am :
                                                    \A j \in DOMAIN am : j <= i]
                 : am \in AxisMaps}
    /\ dev_op = Idle
    /\ MovementIdle /\ TrackerIdle /\ LimiterIdle /\ PlaytaskIdle /\ RemapIdle /\ ScriptIdle

NextEncode ==
    \/ \E a \in {0, 1, 2},
          t \in {0, 1, 9, 10, FineUnit \div 2, (3 * FineUnit) \div 4, FineUnit - 5,
                 FineUnit - 1, FineUnit},
          r \in {0, 1, 42, 9999, 10000, MAX_RAMP_TIME_MS} :
          SerialTCodeStroker_movement(Mv(a, t, r))
    \/ SerialTCodeStroker_stop
    \/ Axes

SpecEncode == InitEncode /\ [][NextEncode]_vars

----------------------------------------------------------------------------
(* strokers_for_mpv/playthread.rs: playtask *)

\* stroker.axes() of a device that reports L0 and R0
axes == <<[axis_id |-> 0, axis_kind |-> "Stroke"], [axis_id |-> 1, axis_kind |-> "Twist"]>>
AxisIds == {axes[i].axis_id : i \in 1..Len(axes)}
NoAxis == -1

\* axes.iter().find(|axis| axis.axis_kind == kind): the axis id, or NoAxis
FindAxis_orFirst(kind) ==
    IF \E i \in 1..Len(axes) : axes[i].axis_kind = kind
    THEN axes[CHOOSE i \in 1..Len(axes) : axes[i].axis_kind = kind].axis_id
    ELSE axes[1].axis_id

FindAxis(kind) ==
    IF \E i \in 1..Len(axes) : axes[i].axis_kind = kind
    THEN axes[CHOOSE i \in 1..Len(axes) :
                /\ axes[i].axis_kind = kind
                /\ \A j \in 1..(i - 1) : axes[j].axis_kind # kind].axis_id
    ELSE NoAxis

DefaultLimits ==
    [speed |-> F(Unit \div 4), default_min |-> F((2 * Unit) \div 5),
     default_max |-> F((3 * Unit) \div 5)]

LimitsFor(kind) == IF kind \in DOMAIN config THEN config[kind] ELSE DefaultLimits

\* the keys of a BTreeMap<AxisId, _> in iteration order
RECURSIVE SortedIds(_)
SortedIds(S) ==
    IF S = {} THEN <<>>
    ELSE LET lo == CHOOSE x \in S : \A y \in S : x <= y
         IN  <<lo>> \o SortedIds(S \ {lo})

Failed_notWrite(kind) == kind \in {"ctor_failed", "panic"}

\* the results of an axis after which `?` (or the panic) leaves the loop
Failed(kind) == kind \in {"ctor_failed", "write_failed", "panic"}

\* TimeChange's loop over by_axis: each axis ticked in turn, `?` leaving at the
\* first error.  `bad` is the axis whose device write fails, if any.
RECURSIVE RunTick(_, _, _, _, _, _)
RunTick(ids, ps, outs, now_millis, now, bad) ==
    IF ids = <<>> THEN [ps |-> ps, outs |-> outs]
    ELSE LET a == Head(ids)
             r == AxisPlaystate_tick(ps[a], now_millis, a, now, a # bad)
             ps1 == [ps EXCEPT ![a] = r.ap]
             outs1 == Append(outs, [axis |-> a, res |-> r.res])
         IN  IF Failed(r.res.kind) THEN [ps |-> ps1, outs |-> outs1]
             ELSE RunTick(Tail(ids), ps1, outs1, now_millis, now, bad)

\* Seek's loop over by_axis: the set of its outcomes
RECURSIVE RunSeek(_, _, _, _, _, _)
RunSeek(ids, ps, outs, now_millis, now, bad) ==
    IF ids = <<>> THEN {[ps |-> ps, outs |-> outs]}
    ELSE LET a == Head(ids)
         IN  UNION {LET ps1 == [ps EXCEPT ![a] = r.ap]
                        outs1 == Append(outs, [axis |-> a, res |-> r.res])
                    IN  IF Failed(r.res.kind) THEN {[ps |-> ps1, outs |-> outs1]}
                        ELSE RunSeek(Tail(ids), ps1, outs1, now_millis, now, bad)
                      : r \in AxisPlaystate_seek(ps[a], now_millis, paused, a, now, a # bad)}

\* how the loop goes on after the axes did `outs`
TaskAfter(outs) ==
    IF \E i \in 1..Len(outs) : outs[i].res.kind = "panic" THEN "panic"
    ELSE IF \E i \in 1..Len(outs) : Failed(outs[i].res.kind) THEN "error"
    ELSE "running"

LastCmdAfter(outs) ==
    IF \E i \in 1..Len(outs) : outs[i].res.kind \in {"dispatched", "write_failed"}
    THEN "move" ELSE last_cmd

\* update_axis: <<ok, new value of the limit>>
update_axis(by, new, target) ==
    IF IsSome(by) /\ IsSome(new) THEN <<FALSE, target>>
    ELSE IF IsSome(by) THEN <<TRUE, FClamp01(FAdd(target, Unwrap(by)))>>
    ELSE IF IsSome(new)
    THEN IF FLt(Unwrap(new), F(0)) \/ FLt(F(Unit), Unwrap(new)) THEN <<FALSE, target>>
         ELSE <<TRUE, Unwrap(new)>>
    ELSE <<TRUE, target>>

\* update_limits: min first, `?` leaving before max when min is refused
update_limits(cmd, l) ==
    LET lo == update_axis(cmd.min_by, cmd.min_new, l.min)
        hi == update_axis(cmd.max_by, cmd.max_new, l.max)
    IN  IF ~lo[1] THEN [ok |-> FALSE, limiter |-> l]
        ELSE [ok |-> hi[1], limiter |-> [l EXCEPT !.min = lo[2], !.max = hi[2]]]

\* the loop takes a message only while it runs; `now` is the Instant read while handling it
Handling(now) == task = "running" /\ clock' = now

OnVideoStarting_noCancel(msg, now) ==
    /\ Handling(now)
    /\ ctokens' = Append(ctokens, FALSE)
    /\ funscript_load_ctoken' = Some(Len(ctokens) + 1)
    /\ ev' = [msg |-> msg, outs |-> <<>>]
    /\ UNCHANGED <<config, task, paused, playstate, last_cmd>>

OnVideoStarting(msg, now) ==
    /\ Handling(now)
    /\ ctokens' = Append(IF IsSome(funscript_load_ctoken)
                         THEN [ctokens EXCEPT ![Unwrap(funscript_load_ctoken)] = TRUE]
                         ELSE ctokens, FALSE)
    /\ funscript_load_ctoken' = Some(Len(ctokens) + 1)
    /\ ev' = [msg |-> msg, outs |-> <<>>]
    /\ UNCHANGED <<config, task, paused, playstate, last_cmd>>

OnUseFunscript_keepLimits(msg, now) ==
    /\ Handling(now)
    /\ LET a == FindAxis(msg.axis_kind)
           limits == LimitsFor(msg.axis_kind)
           fresh == AxisPlaystate_new(msg.normalised_actions, limits.speed,
                                      limits.default_min, limits.default_max, now)
       IN  playstate' =
             IF a = NoAxis THEN playstate
             ELSE IF a \in DOMAIN playstate
             THEN [playstate EXCEPT ![a] = [fresh EXCEPT !.limiter.min = playstate[a].limiter.min,
                                                         !.limiter.max = playstate[a].limiter.max]]
             ELSE (a :> fresh) @@ playstate
    /\ ev' = [msg |-> msg, outs |-> <<>>]
    /\ UNCHANGED <<config, task, paused, funscript_load_ctoken, ctokens, last_cmd>>

OnUseFunscript(msg, now) ==
    /\ Handling(now)
    /\ LET a == FindAxis(msg.axis_kind)
           limits == LimitsFor(msg.axis_kind)
       IN  playstate' =
             IF a = NoAxis THEN playstate
             ELSE (a :> AxisPlaystate_new(msg.normalised_actions, limits.speed,
                                          limits.default_min, limits.default_max, now))
                  @@ playstate
    /\ ev' = [msg |-> msg, outs |-> <<>>]
    /\ UNCHANGED <<config, task, paused, funscript_load_ctoken, ctokens, last_cmd>>

OnSeek(msg, now, bad) ==
    /\ Handling(now)
    /\ \E r \in RunSeek(SortedIds(DOMAIN playstate), playstate, <<>>, msg.now_millis, now, bad) :
         /\ playstate' = r.ps
         /\ ev' = [msg |-> msg, outs |-> r.outs]
         /\ task' = TaskAfter(r.outs)
         /\ last_cmd' = LastCmdAfter(r.outs)
    /\ UNCHANGED <<config, paused, funscript_load_ctoken, ctokens>>

OnTimeChange_tickWhilePaused(msg, now, bad) ==
    /\ Handling(now)
    /\ LET r == RunTick(SortedIds(DOMAIN playstate), playstate, <<>>,
                        msg.now_millis, now, bad)
       IN  /\ playstate' = r.ps
           /\ ev' = [msg |-> msg, outs |-> r.outs]
           /\ task' = TaskAfter(r.outs)
           /\ last_cmd' = LastCmdAfter(r.outs)
    /\ UNCHANGED <<config, paused, funscript_load_ctoken, ctokens>>

OnTimeChange(msg, now, bad) ==
    /\ Handling(now)
    /\ IF paused
       THEN /\ ev' = [msg |-> msg, outs |-> <<>>]
            /\ UNCHANGED <<playstate, task, last_cmd>>
       ELSE LET r == RunTick(SortedIds(DOMAIN playstate), playstate, <<>>,
                             msg.now_millis, now, bad)
            IN  /\ playstate' = r.ps
                /\ ev' = [msg |-> msg, outs |-> r.outs]
                /\ task' = TaskAfter(r.outs)
                /\ last_cmd' = LastCmdAfter(r.outs)
    /\ UNCHANGED <<config, paused, funscript_load_ctoken, ctokens>>

OnPauseChange_stopOnResume(msg, now, stop_ok) ==
    /\ Handling(now)
    /\ paused' = msg.paused
    /\ last_cmd' = "stop" /\ task' = IF stop_ok THEN "running" ELSE "error"
    /\ ev' = [msg |-> msg, outs |-> <<>>]
    /\ UNCHANGED <<config, playstate, funscript_load_ctoken, ctokens>>

OnPauseChange(msg, now, stop_ok) ==
    /\ Handling(now)
    /\ paused' = msg.paused
    /\ IF msg.paused
       THEN last_cmd' = "stop" /\ task' = IF stop_ok THEN "running" ELSE "error"
       ELSE UNCHANGED <<last_cmd, task>>
    /\ ev' = [msg |-> msg, outs |-> <<>>]
    /\ UNCHANGED <<config, playstate, funscript_load_ctoken, ctokens>>

OnShutdown_keepRunning(msg, now, stop_ok) ==
    /\ Handling(now)
    /\ last_cmd' = "stop"
    /\ task' = IF stop_ok THEN "running" ELSE "error"
    /\ ev' = [msg |-> msg, outs |-> <<>>]
    /\ UNCHANGED <<config, paused, playstate, funscript_load_ctoken, ctokens>>

OnShutdown(msg, now, stop_ok) ==
    /\ Handling(now)
    /\ last_cmd' = "stop"
    /\ task' = IF stop_ok THEN "shutdown" ELSE "error"
    /\ ev' = [msg |-> msg, outs |-> <<>>]
    /\ UNCHANGED <<config, paused, playstate, funscript_load_ctoken, ctokens>>

OnKeyCommand(msg, now) ==
    /\ Handling(now)
    /\ LET a == FindAxis(msg.cmd.axis)
       IN  playstate' =
             IF a = NoAxis \/ a \notin DOMAIN playstate THEN playstate
             ELSE [playstate EXCEPT ![a].limiter = update_limits(msg.cmd, @).limiter]
    /\ ev' = [msg |-> msg, outs |-> <<>>]
    /\ UNCHANGED <<config, task, paused, funscript_load_ctoken, ctokens, last_cmd>>

----------------------------------------------------------------------------
(* SpecLimits: update_limits applied again and again, with any command, to the
   limiter of an axis *)

\* update_limits(&cmd, &mut axis.limiter); lim_op keeps the limiter of before
UpdateLimits(cmd) ==
    /\ limiter' = update_limits(cmd, limiter).limiter
    /\ lim_op' = [op |-> "update_limits", cmd |-> cmd, pre |-> limiter,
                  ok |-> update_limits(cmd, limiter).ok]
    /\ UNCHANGED <<overflow_checks, rmVars, dvVars, lim_commits, mvVars, trkVars, coVars, chVars>>

\* <<by, new>> for one limit: nothing, a step up or down, a value in range, one
\* above and one below the range, NaN either way, and both at once
SpecLimits ==
    /\ InitLimiter
    /\ [][\E lo, hi \in {<<None, None>>, <<Some(F(Unit \div 2)), None>>,
                         <<Some(F(-(Unit \div 2))), None>>, <<Some(NaN), None>>,
                         <<None, Some(F(Unit \div 5))>>, <<None, Some(F((3 * Unit) \div 2))>>,
                         <<None, Some(F(-1))>>, <<None, Some(NaN)>>,
                         <<Some(F(Unit \div 2)), Some(F(Unit \div 5))>>} :
             UpdateLimits([min_by |-> lo[1], min_new |-> lo[2],
                           max_by |-> hi[1], max_new |-> hi[2]])]_vars

----------------------------------------------------------------------------
(* Spec: playtask handling any message next, from its start *)

\* the timeline of the end-to-end scenario: actions [(0, pos 0), (1000, pos 100)]
TimelineA == <<NormalisedAction(0, F(0)), NormalisedAction(1000, F(Unit))>>
TimelineB == <<NormalisedAction(500, F(Unit \div 2)), NormalisedAction(1500, F(0))>>
\* an action later than the longest ramp after every playback time used
TimelineC == <<NormalisedAction(MAX_RAMP_TIME_MS + 1001, F(Unit))>>

\* config.limits: nothing configured, or limits for Stroke
Configs ==
    {<<>>}
    \cup {[k \in {"Stroke"} |-> [speed |-> sp, default_min |-> r[1], default_max |-> r[2]]] :
            sp \in {F(0), F(2 * Unit)}, r \in {<<F(0), F(Unit)>>}}

NoChange == [min_by |-> None, min_new |-> None, max_by |-> None, max_new |-> None]
KeyCommands ==
    {[NoChange EXCEPT !.min_by = Some(F(Unit \div 10))] @@ [axis |-> "Stroke"],
     [NoChange EXCEPT !.max_new = Some(F(Unit \div 5))] @@ [axis |-> "Stroke"],
     [NoChange EXCEPT !.min_by = Some(F(Unit \div 10)),
                      !.max_new = Some(F((3 * Unit) \div 2))] @@ [axis |-> "Stroke"],
     [NoChange EXCEPT !.max_by = Some(F(Unit \div 10)),
                      !.max_new = Some(F(Unit))] @@ [axis |-> "Twist"],
     [NoChange EXCEPT !.min_new = Some(F(0))] @@ [axis |-> "Surge"]}

MsgUseFunscript ==
    {[type |-> "UseFunscript", axis_kind |-> k, normalised_actions |-> t] :
        k \in {"Stroke"}, t \in {TimelineA, TimelineB, TimelineC}}
    \cup {[type |-> "UseFunscript", axis_kind |-> k, normalised_actions |-> TimelineA] :
        k \in {"Twist", "Surge"}}
MsgPauseChange == {[type |-> "PauseChange", paused |-> b] : b \in BOOLEAN}

\* time that passes between two readings of Instant::now()
ClockSteps == {0, 500}
\* the axis whose device write fails while a message is handled, if any
BadAxes == DOMAIN playstate \cup {NoAxis}

Init ==
    /\ overflow_checks \in BOOLEAN
    /\ config \in Configs
    /\ clock = 0
    /\ task = "running"
    /\ paused = FALSE
    /\ playstate = <<>>
    /\ funscript_load_ctoken = None
    /\ ctokens = <<>>
    /\ last_cmd = "none"
    /\ ev = [msg |-> [type |-> "None"], outs |-> <<>>]
    /\ steps = 0
    /\ hist = <<>>
    /\ MovementIdle /\ TrackerIdle /\ LimiterIdle /\ ChanIdle /\ RemapIdle /\ ScriptIdle /\ DeviceIdle

notCo == <<overflow_checks, rmVars, dvVars, mvVars, trkVars, limVars, chVars>>

\* one more message is taken from the channel
Step == steps < MaxSteps /\ steps' = steps + 1 /\ UNCHANGED <<hist, notCo>>

Next ==
    \E d \in ClockSteps :
        \/ Step /\ \E m \in {[type |-> "VideoStarting"]} : OnVideoStarting(m, clock + d)
        \/ Step /\ \E m \in MsgUseFunscript : OnUseFunscript(m, clock + d)
        \/ Step /\ \E t \in {0, 500, 1000}, bad \in BadAxes :
                     OnSeek([type |-> "Seek", now_millis |-> t], clock + d, bad)
        \/ Step /\ \E t \in {500, 1000, 1500}, bad \in BadAxes :
                     OnTimeChange([type |-> "TimeChange", now_millis |-> t], clock + d, bad)
        \/ Step /\ \E m \in MsgPauseChange, ok \in BOOLEAN : OnPauseChange(m, clock + d, ok)
        \/ Step /\ \E m \in {[type |-> "Shutdown"]}, ok \in BOOLEAN : OnShutdown(m, clock + d, ok)
        \/ Step /\ \E c \in KeyCommands :
                     OnKeyCommand([type |-> "KeyCommand", cmd |-> c], clock + d)

Spec == Init /\ [][Next]_vars

----------------------------------------------------------------------------
(* SpecE2E: the end-to-end scenario.  A Stroke timeline [(0, 0), (1000, 1)] is
   loaded, then TimeChange(500), TimeChange(1000), TimeChange(1500) arrive;
   hist records each message with what the axes did for it *)

E2ELoaded == [type |-> "UseFunscript", axis_kind |-> "Stroke", normalised_actions |-> TimelineA]
E2ETimes == <<500, 1000, 1500>>

E2ELoad ==
    /\ hist = <<>>
    /\ \E d \in ClockSteps : OnUseFunscript(E2ELoaded, clock + d)
    /\ hist' = Append(hist, ev')
    /\ UNCHANGED <<steps, notCo>>

E2ETimeChange ==
    /\ Len(hist) \in 1..Len(E2ETimes)
    /\ \E d \in ClockSteps, bad \in BadAxes :
          OnTimeChange([type |-> "TimeChange", now_millis |-> E2ETimes[Len(hist)]],
                       clock + d, bad)
    /\ hist' = Append(hist, ev')
    /\ UNCHANGED <<steps, notCo>>

NextE2E == E2ELoad \/ E2ETimeChange

SpecE2E == Init /\ [][NextE2E]_vars

----------------------------------------------------------------------------
(* SpecChan: the host's event loop (lib.rs) sending into the bounded channel,
   playtask receiving from it, and the discovery tasks sending UseFunscript *)

\* flume::bounded(4)
CHANNEL_CAPACITY == 4

\* the receiver exists from the start of the plugin until playtask returns
Alive == task \in {"starting", "running"}

\* the number of the host event produced next
NextId == Len(sent) + Cardinality(lost) + 1

Refused(m, why) == lost' = lost \cup {[id |-> NextId, type |-> m.type, why |-> why]}
Accepted(m) == chan' = Append(chan, [id |-> NextId, msg |-> m]) /\ sent' = Append(sent, NextId)

\* tx.send(m): waits for room; an error once the receiver is gone
send(m) ==
    /\ host = "running" /\ NextId <= MaxEvents
    /\ IF Alive
       THEN Len(chan) < CHANNEL_CAPACITY /\ Accepted(m) /\ UNCHANGED lost
       ELSE Refused(m, "disconnected") /\ UNCHANGED <<chan, sent>>

\* tx.try_send(m): an error when there is no room or the receiver is gone
try_send(m) ==
    /\ host = "running" /\ NextId <= MaxEvents
    /\ IF Alive /\ Len(chan) < CHANNEL_CAPACITY
       THEN Accepted(m) /\ UNCHANGED lost
       ELSE Refused(m, IF Alive THEN "full" ELSE "disconnected") /\ UNCHANGED <<chan, sent>>

notChan == <<overflow_checks, rmVars, dvVars, mvVars, trkVars, limVars, coVars, handled, found>>

HostShutdown ==
    send([type |-> "Shutdown"]) /\ host' = "returned" /\ UNCHANGED notChan

HostStartFile ==
    send([type |-> "VideoStarting"]) /\ UNCHANGED <<host, notChan>>

HostTimeChange ==
    try_send([type |-> "TimeChange", now_millis |-> 1000]) /\ UNCHANGED <<host, notChan>>

HostPause ==
    \E m \in MsgPauseChange : send(m) /\ UNCHANGED <<host, notChan>>

HostSeek_trySend ==
    try_send([type |-> "Seek", now_millis |-> 500]) /\ UNCHANGED <<host, notChan>>

HostSeek ==
    send([type |-> "Seek", now_millis |-> 500]) /\ UNCHANGED <<host, notChan>>

HostClientMessage ==
    /\ send([type |-> "KeyCommand",
             cmd |-> [NoChange EXCEPT !.max_new = Some(F(Unit \div 5))] @@ [axis |-> "Stroke"]])
    /\ UNCHANGED <<host, notChan>>

\* start_playtask: the configuration is loaded and the stroker opened, or not
Started ==
    /\ task = "starting"
    /\ task' \in {"running", "error"}
    /\ UNCHANGED <<overflow_checks, rmVars, dvVars, mvVars, trkVars, limVars, chVars>>
    /\ UNCHANGED <<config, clock, paused, playstate, funscript_load_ctoken, ctokens,
                   last_cmd, ev, steps, hist>>

\* match msg { ... }
Dispatch(msg, now, bad, ok) ==
    CASE msg.type = "VideoStarting" -> OnVideoStarting(msg, now)
      [] msg.type = "UseFunscript" -> OnUseFunscript(msg, now)
      [] msg.type = "Seek" -> OnSeek(msg, now, bad)
      [] msg.type = "TimeChange" -> OnTimeChange(msg, now, bad)
      [] msg.type = "PauseChange" -> OnPauseChange(msg, now, ok)
      [] msg.type = "Shutdown" -> OnShutdown(msg, now, ok)
      [] msg.type = "KeyCommand" -> OnKeyCommand(msg, now)

\* while let Ok(msg) = rx.recv_async().await { match msg { ... } }
Receive ==
    /\ task = "running" /\ chan # <<>>
    /\ chan' = Tail(chan)
    /\ handled' = IF Head(chan).id > 0 THEN Append(handled, Head(chan).id) ELSE handled
    /\ \E bad \in BadAxes, ok \in BOOLEAN : Dispatch(Head(chan).msg, clock, bad, ok)
    /\ UNCHANGED <<overflow_checks, rmVars, dvVars, mvVars, trkVars, limVars, steps, hist>>
    /\ UNCHANGED <<host, sent, lost, found>>

\* search_for_funscripts of the task spawned with token tok sends what it found;
\* the message carries no token: tok is recorded here to tell the tasks apart
\* (id 0: not a host event).  tokio::select! polls its branches in no fixed
\* order, so a task whose token is already cancelled may still complete a send.
Discover(tok) ==
    /\ task = "running" /\ tok \notin found
    /\ Len(chan) < CHANNEL_CAPACITY
    /\ chan' = Append(chan, [id |-> 0, msg |-> [tok |-> tok] @@ E2ELoaded])
    /\ found' = found \cup {tok}
    /\ UNCHANGED <<overflow_checks, rmVars, dvVars, mvVars, trkVars, limVars, coVars>>
    /\ UNCHANGED <<host, sent, handled, lost>>

InitChan ==
    /\ overflow_checks \in BOOLEAN
    /\ config = <<>>
    /\ clock = 0
    /\ task = "starting"
    /\ paused = FALSE
    /\ playstate = <<>>
    /\ funscript_load_ctoken = None
    /\ ctokens = <<>>
    /\ last_cmd = "none"
    /\ ev = [msg |-> [type |-> "None"], outs |-> <<>>]
    /\ steps = 0
    /\ hist = <<>>
    /\ MovementIdle /\ TrackerIdle /\ LimiterIdle /\ ChanIdle /\ RemapIdle /\ ScriptIdle /\ DeviceIdle

NextChan ==
    \/ HostShutdown
    \/ HostStartFile
    \/ HostTimeChange
    \/ HostPause
    \/ HostSeek
    \/ HostClientMessage
    \/ Started
    \/ Receive
    \/ \E tok \in 1..Len(ctokens) : Discover(tok)

SpecChan == InitChan /\ [][NextChan]_vars

----------------------------------------------------------------------------
(* Properties of Movement::new (SpecMovement) *)

\* what the arguments are, said without Movement_new
MvTargetInRange == mv_in[2].k = "fin" /\ 0 <= mv_in[2].v /\ mv_in[2].v <= Unit
MvValid == MvTargetInRange /\ mv_in[3] <= MAX_RAMP_TIME_MS

\* C3: Movement::new returns None when the target is outside [0,1] or not finite
\* or the ramp time exceeds 9,999,999 ms, and otherwise a Movement holding exactly
\* the arguments; so every Movement has 0 <= target <= 1 and ramp <= 9,999,999.
C3_MovementNew ==
    movement.called =>
        /\ ~MvValid => movement.ret = None
        /\ MvValid => movement.ret = Some([axis |-> mv_in[1], target |-> mv_in[2],
                                           ramp_time_milliseconds |-> mv_in[3]])
        /\ IsSome(movement.ret) =>
              /\ IsFin(Unwrap(movement.ret).target)
              /\ 0 <= Unwrap(movement.ret).target.v
              /\ Unwrap(movement.ret).target.v <= Unit
              /\ Unwrap(movement.ret).ramp_time_milliseconds <= MAX_RAMP_TIME_MS

\* a Movement was built at both upper edges: target 1.0 and ramp 9,999,999
C3_Witness ==
    /\ movement.called
    /\ IsSome(movement.ret)
    /\ mv_in[2] = F(Unit)
    /\ mv_in[3] = MAX_RAMP_TIME_MS

----------------------------------------------------------------------------
(* Properties of FunscriptPlaystate (SpecTracker) *)

\* index (0-based) of the first action with timestamp >= key, Len if none
FirstIndexAtLeast(actions, key) ==
    Cardinality({i \in 1..Len(actions) : actions[i].at < key})

\* C7: seek(now) sets the due time to now and the cursor to the index of the
\* first action with timestamp >= now + 1 (the list length if there is none),
\* also when several actions share that timestamp.  Stated for now < u32::MAX,
\* where now + 1 is a u32.
C7_SeekFirstAtLeast ==
    (trk_op.op = "seek" /\ trk_op.t < U32_MAX) =>
        /\ funscript.next_tick_at = Some(trk_op.t)
        /\ funscript.next_index =
              FirstIndexAtLeast(funscript.normalised_actions, trk_op.t + 1)

\* C8: tick(now) returns nothing and changes nothing when no due time is pending,
\* or now is before the due time, or the cursor is at or past the end; otherwise
\* it returns the action at the cursor, advances the cursor by one and sets the
\* due time to that action's own timestamp.
C8_TickContract ==
    trk_op.op = "tick" =>
        LET pre == trk_op.pre
            blocked ==
                IF ~IsSome(pre.next_tick_at) THEN TRUE
                ELSE IF trk_op.t < Unwrap(pre.next_tick_at) THEN TRUE
                ELSE pre.next_index >= Len(pre.normalised_actions)
        IN  IF blocked
            THEN trk_op.ret = None /\ funscript = pre
            ELSE /\ trk_op.ret = Some(pre.normalised_actions[pre.next_index + 1])
                 /\ funscript.next_index = pre.next_index + 1
                 /\ funscript.next_tick_at = Some(Unwrap(trk_op.ret).at)
                 /\ funscript.normalised_actions = pre.normalised_actions

\* a tick at a time later than the returned action's timestamp
C8_Witness ==
    /\ trk_op.op = "tick"
    /\ IsSome(trk_op.ret)
    /\ Unwrap(trk_op.ret).at < trk_op.t
    /\ trk_op.pre.next_index > 0

\* C9: between seeks, the actions tick returns have strictly increasing indices
\* (none is returned twice) and non-decreasing timestamps (no backward replay).
C9_NoBackwardReplay ==
    \A i \in 1..Len(trk_returned) : \A j \in (i + 1)..Len(trk_returned) :
        /\ trk_returned[i] < trk_returned[j]
        /\ funscript.normalised_actions[trk_returned[i] + 1].at
              <= funscript.normalised_actions[trk_returned[j] + 1].at

\* a seek was made and two ticks after it returned actions
C9_Witness ==
    /\ trk_op.op = "tick"
    /\ Len(trk_returned) = 2
    /\ IsSome(trk_op.ret)
    /\ funscript.next_tick_at # Some(0)
    /\ trk_returned[1] > 0

Exhausted(fs) == fs.next_index >= Len(fs.normalised_actions)

\* C10: once the cursor has passed the last action, a tick at any time returns
\* nothing and leaves the cursor past the end; only a seek changes that.
C10_ExhaustedStaysSilent ==
    [][(Exhausted(funscript) /\ trk_op'.op = "tick")
          => (trk_op'.ret = None /\ Exhausted(funscript'))]_vars

\* a tick on an exhausted, non-empty timeline at a time that is due
C10_Witness ==
    /\ trk_op.op = "tick"
    /\ Exhausted(trk_op.pre)
    /\ Len(funscript.normalised_actions) > 0
    /\ trk_op.t >= Unwrap(trk_op.pre.next_tick_at)

\* C39: seek(now) runs without integer underflow or overflow for every
\* time-sorted list, the empty one and those starting after now included, and
\* for every now up to u32::MAX; the cursor is then in [0, length].
C39_SeekNoOverflow ==
    trk_op.op = "seek" =>
        /\ ~trk_op.panic
        /\ funscript.next_index \in 0..Len(funscript.normalised_actions)

----------------------------------------------------------------------------
(* Properties of AxisLimiter (SpecLimiter) *)

\* C1: the target limit_command returns implies a speed of at most speed_limit:
\* |returned - estimate(now)| / max(duration, 1 ms) <= speed_limit, up to the
\* rounding of one product (half a unit of position).
C1_ReturnedSpeedWithinLimit ==
    lim_op.op = "limit_command" =>
        /\ IsFin(lim_op.out[1])
        /\ IsFin(lim_op.cur_pos)
        /\ 2 * Abs(lim_op.out[1].v - lim_op.cur_pos.v) * 1000
              <= 2 * limiter.speed_limit.v * Max(lim_op.duration_millis, 1) + 1000

\* the same, for a positive speed limit and a limiter that holds no NaN
C1_PositiveLimit ==
    (/\ lim_op.op = "limit_command"
     /\ limiter.speed_limit.v > 0
     /\ IsFin(lim_op.cur_pos)) =>
        /\ IsFin(lim_op.out[1])
        /\ 2 * Abs(lim_op.out[1].v - lim_op.cur_pos.v) * 1000
              <= 2 * limiter.speed_limit.v * Max(lim_op.duration_millis, 1) + 1000

\* C11: estimate_current_position(now) is the last target when now is at or
\* past the target time (a zero-duration command at now included), the linear
\* interpolation when now is strictly between start and target time, and the
\* last start position when now precedes the start time
C11_EstimateByCase ==
    lim_op.op = "estimate" =>
        lim_op.out =
            IF lim_op.now >= limiter.last_command_target_time
            THEN limiter.last_command_target
            ELSE IF lim_op.now > limiter.last_command_start_time
            THEN Interpolate(limiter, lim_op.now)
            ELSE limiter.last_command_start

\* the remapped target min + (max - min) * raw_target of a limit_command call
Remapped(l, raw) == FAdd(l.min, FMul(FSub(l.max, l.min), raw))

\* |delta| / max(duration, 1 ms) <= speed_limit, in exact arithmetic
SpeedWithinLimit(delta, speed_limit, duration_millis) ==
    /\ IsFin(delta) /\ IsFin(speed_limit)
    /\ Abs(delta.v) * 1000 <= speed_limit.v * Max(duration_millis, 1)

\* C12: limit_command returns (remapped target, duration) when the implied speed
\* |delta| / max(duration, 1 ms) is within speed_limit, and otherwise
\* (estimate + delta * speed_limit / implied speed, duration); the duration
\* returned is the duration given
C12_LimitCommandContract ==
    lim_op.op = "limit_command" =>
        LET target == Remapped(limiter, lim_op.target)
            delta == FSub(target, lim_op.cur_pos)
        IN  /\ lim_op.out[2] = lim_op.duration_millis
            /\ lim_op.out[1] =
                 IF SpeedWithinLimit(delta, limiter.speed_limit, lim_op.duration_millis)
                 THEN target
                 ELSE FAdd(lim_op.cur_pos,
                           ScaledDelta(delta, limiter.speed_limit,
                                       Max(lim_op.duration_millis, 1)))

\* the same with the branch taken when the speed is strictly below the limit,
\* and neither call changes the limiter
C12_StrictBranch ==
    lim_op.op = "limit_command" =>
        LET target == Remapped(limiter, lim_op.target)
            delta == FSub(target, lim_op.cur_pos)
        IN  /\ lim_op.out[2] = lim_op.duration_millis
            /\ lim_op.out[1] =
                 IF IsFin(delta) /\ IsFin(limiter.speed_limit)
                    /\ Abs(delta.v) * 1000
                         < limiter.speed_limit.v * Max(lim_op.duration_millis, 1)
                 THEN target
                 ELSE FAdd(lim_op.cur_pos,
                           ScaledDelta(delta, limiter.speed_limit,
                                       Max(lim_op.duration_millis, 1)))

----------------------------------------------------------------------------
(* Properties of update_limits (SpecLimits) *)

InUnitRange(x) == FLe(F(0), x) /\ FLe(x, F(Unit))

\* what the claim says of one limit: `old` before, `cur` after, `failed` when
\* this part of the request was refused
LimitPart(by, new, old, cur, failed) ==
    CASE IsSome(by) /\ IsSome(new) -> failed /\ cur = old
      [] IsSome(by) -> /\ ~failed
                       /\ IsFin(old) /\ IsFin(Unwrap(by))
                             => cur = F(Max(0, Min(Unit, old.v + Unwrap(by).v)))
      [] IsSome(new) -> IF InUnitRange(Unwrap(new)) THEN ~failed /\ cur = Unwrap(new)
                        ELSE failed /\ cur = old
      [] OTHER -> ~failed /\ cur = old

\* the request of the last update_limits, limit by limit; the max part is not
\* looked at when the min part was refused
LimitParts ==
    LET c == lim_op.cmd
        minFailed == ~lim_op.ok /\ update_axis(c.min_by, c.min_new, lim_op.pre.min)[1] = FALSE
    IN  /\ LimitPart(c.min_by, c.min_new, lim_op.pre.min, limiter.min, minFailed)
        /\ ~minFailed => LimitPart(c.max_by, c.max_new, lim_op.pre.max, limiter.max, ~lim_op.ok)

\* C22: a relative change gives clamp(old + delta, 0, 1); an absolute value
\* inside [0, 1] is taken; an absolute value outside [0, 1] makes the call fail
\* and leaves the limit; both at once make the call fail.  So limits that
\* started in [0, 1] stay in [0, 1] (max < min allowed).
C22_LimitUpdateContract ==
    lim_op.op = "update_limits" =>
        /\ LimitParts
        /\ InUnitRange(limiter.min) /\ InUnitRange(limiter.max)

\* the same, for requests and limits without NaN
C22_FiniteRequests ==
    (/\ lim_op.op = "update_limits"
     /\ \A x \in {lim_op.cmd.min_by, lim_op.cmd.min_new, lim_op.cmd.max_by, lim_op.cmd.max_new} :
           IsSome(x) => IsFin(Unwrap(x))
     /\ IsFin(lim_op.pre.min) /\ IsFin(lim_op.pre.max))
        => /\ LimitParts
           /\ InUnitRange(limiter.min) /\ InUnitRange(limiter.max)

\* C23: when update_limits returns an error, min and max are what they were
\* before the request.
C23_RejectedLeavesLimits ==
    (lim_op.op = "update_limits" /\ ~lim_op.ok)
        => limiter.min = lim_op.pre.min /\ limiter.max = lim_op.pre.max

----------------------------------------------------------------------------
(* Properties of the playtask (Spec) *)

\* the Movements the message handled last handed to the device
Dispatched == {i \in 1..Len(ev.outs) : ev.outs[i].res.kind = "dispatched"}

\* v lies between min and max, taken in either order
WithinRange(v, l) ==
    /\ FLe(IF FLe(l.min, l.max) THEN l.min ELSE l.max, v)
    /\ FLe(v, IF FLe(l.min, l.max) THEN l.max ELSE l.min)

\* C2: every Movement dispatched for an axis by Seek or TimeChange has a target
\* between that axis limiter's current min and max, in either order
C2_DispatchedTargetWithinRange ==
    \A i \in Dispatched :
        WithinRange(ev.outs[i].res.target, playstate[ev.outs[i].axis].limiter)

\* the record of the last commanded motion
LastMotion(l) ==
    <<l.last_command_start, l.last_command_start_time,
      l.last_command_target, l.last_command_target_time>>

\* C4: when Movement::new or the device write fails while Seek or TimeChange is
\* handled, the axis limiter's last-motion record is the one it was before
C4_RecordUnchangedOnFailure ==
    [][\A i \in 1..Len(ev'.outs) :
          ev'.outs[i].res.kind \in {"ctor_failed", "write_failed"}
            => LastMotion(playstate'[ev'.outs[i].axis].limiter)
                 = LastMotion(playstate[ev'.outs[i].axis].limiter)]_vars


\* C26: once VideoStarting has been handled, every AxisPlaystate loaded for
\* the content before is gone, so that no axis is driven from an earlier
\* content's timeline at a later Seek or TimeChange.
C26_PlaystatesDiscarded ==
    ev.msg.type = "VideoStarting" => playstate = <<>>

\* the message handled by this step
Handles(type) == steps' = steps + 1 /\ ev'.msg.type = type

DeviceKinds == [Stroke |-> 0, Twist |-> 1]

\* C29: UseFunscript for a kind the device has puts a fresh AxisPlaystate
\* under that axis's id, whatever was there: cursor 0, due time 0, estimated
\* position 0.5, speed, min and max from the configuration, or 0.25 and
\* [0.4, 0.6] where the kind is not configured; earlier limit changes are
\* gone, and the entries of the other axes are as before.
C29_FreshPlaystate ==
    [][(Handles("UseFunscript") /\ ev'.msg.axis_kind \in DOMAIN DeviceKinds) =>
          LET kind == ev'.msg.axis_kind
              a == DeviceKinds[kind]
              configured == kind \in DOMAIN config
              l == playstate'[a].limiter
          IN  /\ DOMAIN playstate' = DOMAIN playstate \cup {a}
              /\ \A b \in DOMAIN playstate \ {a} : playstate'[b] = playstate[b]
              /\ playstate'[a].funscript =
                    [normalised_actions |-> ev'.msg.normalised_actions,
                     next_index |-> 0, next_tick_at |-> Some(0)]
              /\ estimate_current_position(l, clock') = F(Unit \div 2)
              /\ l.last_command_target = F(Unit \div 2)
              /\ l.speed_limit = IF configured THEN config[kind].speed ELSE F(Unit \div 4)
              /\ l.min = IF configured THEN config[kind].default_min ELSE F((2 * Unit) \div 5)
              /\ l.max = IF configured THEN config[kind].default_max
                         ELSE F((3 * Unit) \div 5)]_vars

C29_Witness ==
    /\ ev.msg.type = "UseFunscript" /\ ev.msg.axis_kind = "Stroke"
    /\ ev.msg.normalised_actions = TimelineB
    /\ steps = MaxSteps
    /\ DOMAIN playstate = {0, 1}
    /\ "Stroke" \in DOMAIN config

\* C30: UseFunscript for a kind no device axis has, and an axis-limit change
\* for a kind the device lacks or whose axis has no AxisPlaystate, are dropped:
\* the axis map with every limiter and the pause flag stay as they are,
\* nothing is sent to the device, and the loop goes on.
C30_MismatchDropped ==
    [][(\/ Handles("UseFunscript") /\ ev'.msg.axis_kind \notin DOMAIN DeviceKinds
        \/ /\ Handles("KeyCommand")
           /\ \/ ev'.msg.cmd.axis \notin DOMAIN DeviceKinds
              \/ DeviceKinds[ev'.msg.cmd.axis] \notin DOMAIN playstate)
          => /\ playstate' = playstate /\ paused' = paused
             /\ last_cmd' = last_cmd /\ ev'.outs = <<>>
             /\ task' = "running"]_vars

C30_Witness ==
    /\ ev.msg.type = "KeyCommand" /\ ev.msg.cmd.axis = "Twist"
    /\ DOMAIN playstate = {0}
    /\ steps = MaxSteps

\* the device write of no axis failed while the message was handled
NoWriteFailed(outs) == \A i \in 1..Len(outs) : outs[i].res.kind # "write_failed"
\* the Movements among outs that were handed to the device for axis a
SentFor(outs, a) ==
    {i \in 1..Len(outs) : outs[i].axis = a /\ outs[i].res.kind = "dispatched"}

\* C31: Seek(now), paused or not, dispatches for each live axis exactly one
\* Movement if the timeline has an action later than now, for the first such
\* action, requesting a ramp of 1000 ms when paused and of (timestamp - now)
\* otherwise, and dispatches nothing for an axis without such an action.
\* (Stated for the events during which no device write failed.)
C31_SeekDispatch ==
    (ev.msg.type = "Seek" /\ NoWriteFailed(ev.outs)) =>
        \A a \in DOMAIN playstate :
            LET tl == playstate[a].funscript.normalised_actions
                later == {i \in 1..Len(tl) : tl[i].at > ev.msg.now_millis}
                first == tl[CHOOSE i \in later : \A j \in later : i <= j]
                moved == SentFor(ev.outs, a)
            IN  IF later = {} THEN moved = {}
                ELSE /\ Cardinality(moved) = 1
                     /\ \A i \in moved :
                          /\ ev.outs[i].res.at = first.at
                          /\ ev.outs[i].res.requested =
                               IF paused THEN 1000 ELSE first.at - ev.msg.now_millis

\* C32: an unpaused TimeChange(now) dispatches for each live axis at most one
\* Movement, and one exactly when the tracker's tick returns an action with
\* timestamp >= now, requesting (timestamp - now); an action with timestamp
\* < now is dropped: limiter as before, nothing moved, cursor one further.
\* (Stated for the events during which no device write failed.)
C32_TimeChangeDispatch ==
    [][(Handles("TimeChange") /\ ~paused /\ NoWriteFailed(ev'.outs)) =>
          \A a \in DOMAIN playstate :
              LET r == FunscriptPlaystate_tick(playstate[a].funscript, ev'.msg.now_millis)
                  moved == SentFor(ev'.outs, a)
                  due == IsSome(r.ret) /\ Unwrap(r.ret).at >= ev'.msg.now_millis
                  stale == IsSome(r.ret) /\ Unwrap(r.ret).at < ev'.msg.now_millis
              IN  /\ Cardinality(moved) <= 1
                  /\ (moved # {}) <=> due
                  /\ \A i \in moved :
                       ev'.outs[i].res.requested = Unwrap(r.ret).at - ev'.msg.now_millis
                  /\ stale => /\ playstate'[a].limiter = playstate[a].limiter
                              /\ playstate'[a].funscript.next_index
                                   = playstate[a].funscript.next_index + 1]_vars

\* C33: while paused a TimeChange changes nothing (no tracker, no limiter, not
\* the pause flag) and sends nothing, so the only Movements dispatched while
\* paused are those of Seek.
C33_PausedTimeChangeIgnored ==
    /\ [][(Handles("TimeChange") /\ paused) =>
             /\ playstate' = playstate /\ paused' = paused
             /\ last_cmd' = last_cmd /\ task' = task /\ ev'.outs = <<>>]_vars
    /\ [][(steps' = steps + 1 /\ paused /\ paused'
             /\ \E i \in 1..Len(ev'.outs) : ev'.outs[i].res.kind = "dispatched")
           => ev'.msg.type = "Seek"]_vars

C33_Witness ==
    /\ ev.msg.type = "TimeChange" /\ ev.msg.now_millis = 500
    /\ paused /\ ev.outs = <<>>
    /\ 0 \in DOMAIN playstate
    /\ playstate[0].funscript = FunscriptPlaystate_new(TimelineB)

\* C34: PauseChange(true) sets the pause flag and sends the device a stop;
\* PauseChange(false) clears the flag, sends nothing, and leaves every tracker
\* and every limiter as it was.
C34_PauseChange ==
    [][Handles("PauseChange") =>
          /\ paused' = ev'.msg.paused
          /\ playstate' = playstate /\ ev'.outs = <<>>
          /\ IF ev'.msg.paused
             THEN last_cmd' = "stop" /\ task' \in {"running", "error"}
             ELSE last_cmd' = last_cmd /\ task' = task]_vars

C34_Witness ==
    /\ ev.msg.type = "PauseChange" /\ ~ev.msg.paused
    /\ ~paused /\ last_cmd = "move" /\ task = "running"
    /\ playstate # <<>>

\* C36: when the device write fails for an axis while Seek or TimeChange is
\* handled, the axes after it in AxisId order are neither ticked nor
\* commanded, playtask returns the error, and no later message is handled.
C36_DispatchFailureAborts ==
    /\ [][(steps' = steps + 1
             /\ \E i \in 1..Len(ev'.outs) : ev'.outs[i].res.kind = "write_failed") =>
            LET n == Len(ev'.outs)
                a == ev'.outs[n].axis
            IN  /\ ev'.outs[n].res.kind = "write_failed"
                /\ \A i \in 1..(n - 1) : ev'.outs[i].axis < a
                /\ \A b \in DOMAIN playstate : b > a => playstate'[b] = playstate[b]
                /\ task' = "error"]_vars
    /\ [][task # "running" => UNCHANGED coVars]_vars

C36_Witness ==
    /\ ev.msg.type = "Seek" /\ task = "error"
    /\ Len(ev.outs) = 1 /\ ev.outs[1].axis = 0 /\ ev.outs[1].res.kind = "write_failed"
    /\ 1 \in DOMAIN playstate
    /\ playstate[1].funscript = FunscriptPlaystate_new(TimelineA)

\* C37: when playtask has returned, by Shutdown or with an error, the last
\* command it tried to send to the device is a stop.
C37_StopIsLastCommand ==
    task \in {"shutdown", "error"} => last_cmd = "stop"

\* C38: with positions, min and max in [0, 1] and a positive speed limit, no
\* Movement::new called by Seek or TimeChange returns None.
C38_ConstructionSucceeds ==
    \A i \in 1..Len(ev.outs) :
        LET ap == playstate[ev.outs[i].axis]
        IN  (/\ \A k \in 1..Len(ap.funscript.normalised_actions) :
                   InUnitRange(ap.funscript.normalised_actions[k].norm_pos)
             /\ InUnitRange(ap.limiter.min) /\ InUnitRange(ap.limiter.max)
             /\ FLt(F(0), ap.limiter.speed_limit))
            => ev.outs[i].res.kind # "ctor_failed"

----------------------------------------------------------------------------
(* Properties of the end-to-end scenario (SpecE2E) *)

\* what the axes did for the n-th TimeChange of the scenario
E2EOuts(n) == hist[n + 1].outs

\* C6 as stated: TimeChange(500) dispatches a Movement
C6_DispatchAt500 ==
    Len(hist) >= 2 => \E i \in 1..Len(E2EOuts(1)) : E2EOuts(1)[i].res.kind = "dispatched"

\* C6: TimeChange(500) hands nothing to the device, the tracker returning the
\* action at 0, which is stale and is dropped; TimeChange(1000) hands the device
\* one Movement, for the action with timestamp 1000 and ramp 0, its target from
\* 0.5 towards the action's position; TimeChange(1500) hands nothing (cursor
\* exhausted)
C6_EndToEnd ==
    /\ Len(hist) >= 2 =>
          /\ Len(E2EOuts(1)) = 1
          /\ E2EOuts(1)[1].res.kind = "stale" /\ E2EOuts(1)[1].res.at = 0
    /\ Len(hist) >= 3 =>
          /\ Len(E2EOuts(2)) = 1
          /\ E2EOuts(2)[1].axis = FindAxis("Stroke")
          /\ E2EOuts(2)[1].res.kind \in {"dispatched", "write_failed"}
          /\ E2EOuts(2)[1].res.at = 1000
          /\ E2EOuts(2)[1].res.ramp = 0
          /\ FLe(F(Unit \div 2), E2EOuts(2)[1].res.target)
          /\ FLe(E2EOuts(2)[1].res.target, F(Unit))
    /\ Len(hist) >= 4 =>
          /\ Len(E2EOuts(3)) = 1
          /\ E2EOuts(3)[1].res.kind = "none"
          /\ Exhausted(playstate[FindAxis("Stroke")].funscript)

C6_Witness ==
    /\ Len(hist) = 4
    /\ E2EOuts(2)[1].res.kind = "dispatched"
    /\ E2EOuts(3)[1].res.kind = "none"


----------------------------------------------------------------------------
(* Properties of the channel (SpecChan) *)

\* the ids of the host events among the messages ch
HostIds(ch) ==
    LET h == SelectSeq(ch, LAMBDA e : e.id > 0)
    IN  [i \in 1..Len(h) |-> h[i].id]

IsPrefix(a, b) == Len(a) <= Len(b) /\ a = SubSeq(b, 1, Len(a))

\* C5 as stated: no host event is dropped because the channel is full
C5_NoneDroppedWhenFull == \A l \in lost : l.why # "full"

\* C5: the host events the channel accepted are taken by playtask at most once
\* each, one at a time and in the order they were accepted, none of them skipped
\* while playtask runs; the channel never holds more than 4 messages; and the
\* only events refused for lack of room are time-changes (every other sender
\* waits for room)
C5_AcceptedHandledInOrder ==
    /\ Len(chan) <= CHANNEL_CAPACITY
    /\ IsPrefix(handled, sent)
    /\ Alive => handled \o HostIds(chan) = sent
    /\ \A l \in lost : l.why = "full" => l.type = "TimeChange"

C5_Witness ==
    /\ Len(handled) >= 2
    /\ \E l \in lost : l.why = "full"


----------------------------------------------------------------------------
(* Properties of the range remap (SpecRemap) *)

\* C13: for raw_target, min and max in [0,1], the remapped target
\* min + (max - min) * raw_target lies between min and max inclusive, whichever
\* of min and max is the larger
C13_RemappedWithinRange ==
    rm.called => /\ Min(rm.min, rm.max) <= rm.out
                 /\ rm.out <= Max(rm.min, rm.max)

----------------------------------------------------------------------------
(* Properties of the position estimate across a commit (SpecGlide) *)

\* C40: right after notify_commanded(now, target, duration) with duration > 0
\* the estimate at now is what it was right before the call, the estimate at
\* now + duration is the target, and every estimate in between lies between
\* those two values.
C40_EstimateContinuous ==
    rm.called =>
        /\ estimate_current_position_f32(rm.limiter, rm.now) = rm.before
        /\ estimate_current_position_f32(rm.limiter, rm.now + rm.duration_millis)
             = rm.target
        /\ \A t \in rm.now..(rm.now + rm.duration_millis) :
             /\ Min(rm.before, rm.target) <= estimate_current_position_f32(rm.limiter, t)
             /\ estimate_current_position_f32(rm.limiter, t) <= Max(rm.before, rm.target)

----------------------------------------------------------------------------
(* Properties of the T-Code encoding (SpecEncode) *)

IsDigits(ds) == \A i \in DOMAIN ds : \E d \in DOMAIN DigitChar : DigitChar[d] = ds[i]

\* the number a sequence of decimal digits denotes
RECURSIVE DigitsValue(_)
DigitsValue(ds) ==
    IF ds = <<>> THEN 0
    ELSE 10 * DigitsValue(SubSeq(ds, 1, Len(ds) - 1))
         + (CHOOSE d \in 0..9 : DigitChar[d + 1] = ds[Len(ds)])

\* the last operation was a Movement for a discovered axis, and it was written
Encoded ==
    /\ dev_op.op = "movement"
    /\ dev_op.arg.axis \in DOMAIN dev_op.pre.axis_map
    /\ dev_op.ok

Session(c) == [pc |-> c.pc, axis_map |-> c.axis_map]

\* C15: a Movement for an AxisId that is not in the session's axis map returns
\* an error, writes nothing to the port, and leaves the session as it was.
C15_UnknownAxisRejected ==
    (dev_op.op = "movement" /\ dev_op.arg.axis \notin DOMAIN dev_op.pre.axis_map)
        => /\ ~dev_op.ok
           /\ port_out = dev_op.out
           /\ Session(conn) = Session(dev_op.pre)

C15_Witness ==
    /\ dev_op.op = "movement"
    /\ dev_op.arg.axis \notin DOMAIN dev_op.pre.axis_map
    /\ dev_op.pre.axis_map # <<>>
    /\ ~dev_op.ok

----------------------------------------------------------------------------
(* Properties of connect (SpecDevice) *)

\* where an event stands in the record of what connect and the session did
Pos(e, what) == {i \in DOMAIN conn.log : conn.log[i] = [e |-> e, what |-> what]}
Before(P, i) == {j \in P : j < i}
CommandPos == Pos("command", "movement") \cup Pos("command", "stop")
Queries == <<<<"D0">>, <<"D1">>, <<"D2">>>>

\* C16: connect sends D0, D1, D2 once each in that order; D1 is sent only
\* after one reply line to D0 was read, D2 only after one reply line to D1 was
\* read, axis lines are read only after D2 was sent, and a movement or stop is
\* sent only on the session, which exists once the enumeration has ended.
C16_HandshakeOrder ==
    /\ \A q \in {"D0", "D1", "D2"} : Cardinality(Pos("send", q)) <= 1
    /\ conn.pc \in {"enumerate", "connected"}
          => /\ \A q \in {"D0", "D1", "D2"} : Cardinality(Pos("send", q)) = 1
             /\ SubSeq(port_out, 1, 3) = Queries
    /\ \A i \in Pos("send", "D1") :
          /\ Cardinality(Before(Pos("read", "D0"), i)) = 1
          /\ \A j \in Pos("read", "D0") : Before(Pos("send", "D0"), j) # {}
    /\ \A i \in Pos("send", "D2") :
          /\ Cardinality(Before(Pos("read", "D1"), i)) = 1
          /\ \A j \in Pos("read", "D1") : Before(Pos("send", "D1"), j) # {}
    /\ \A i \in Pos("read", "axis") : Before(Pos("send", "D2"), i) # {}
    /\ \A i \in CommandPos :
          /\ conn.pc = "connected"
          /\ Before(Pos("send", "D2"), i) # {}
          /\ \A j \in Pos("read", "axis") : j < i
    /\ \A i \in DOMAIN port_out :
          IF i <= 3 THEN port_out[i] = Queries[i]
          ELSE port_out[i][1] \notin {"D0", "D1", "D2"} /\ conn.pc = "connected"

C16_Witness ==
    /\ conn.pc = "connected"
    /\ Cardinality(Pos("read", "axis")) = 2
    /\ dev_op.op = "movement" /\ dev_op.ok
    /\ Len(port_out) = 4

\* C17: connect ends in an error, and there is no session, when the port
\* cannot be opened or its buffers discarded, or when the read of the D0 or
\* of the D1 reply meets the end of the stream or a read error; after a failed
\* D0 exchange neither D1 nor D2 has been sent.
C17_FatalHandshake ==
    /\ [](conn.pc = "failed" =>
            /\ IsSome(conn.error)
            /\ CommandPos = {}
            /\ Unwrap(conn.error) \in {"failed to open serial port", "failed to discard buffers"}
                  => port_out = <<>>
            /\ ~IsSome(conn.d0_resp) => \A i \in DOMAIN port_out : port_out[i] = <<"D0">>)
    /\ [][/\ conn.pc = "failed" => conn'.pc = "failed"
          /\ (conn.pc \in {"open", "discard"} /\ conn'.pc \notin {"discard", "send_d0"})
                => conn'.pc = "failed"
          /\ (/\ conn.pc \in {"read_d0", "read_d1"}
              /\ port_in # <<>> /\ port_in' = Tail(port_in)
              /\ Head(port_in).kind # "line")
                => conn'.pc = "failed" /\ port_out' = port_out]_vars

C17_Witness ==
    /\ conn.pc = "failed"
    /\ conn.error = Some("end of stream on D0 command")
    /\ port_out = <<<<"D0">>>>

\* a line as the parser accepts it: at least 4 fields, numeric min and max
WellFormed(text) ==
    LET fields == Split(text)
    IN  /\ Len(fields) >= 4
        /\ IsSome(ParseU16(fields[2]))
        /\ IsSome(ParseU16(fields[3]))

LinesRead == {i \in DOMAIN conn.lines : conn.lines[i].kind = "line"}
Registered(text) ==
    \E id \in DOMAIN conn.axis_map : conn.axis_map[id].tcode_axis_name = Split(text)[1]

\* C18: an enumeration line that does not parse (fewer than 4 fields, or a
\* min or max that is no number) is not registered; the well-formed lines
\* before and after it are registered; connect goes on and returns a session.
C18_UnparsableSkipped ==
    /\ \A i \in LinesRead :
          IF WellFormed(conn.lines[i].text)
          THEN \E id \in DOMAIN conn.axis_map :
                  LET fields == Split(conn.lines[i].text)
                  IN  conn.axis_map[id] =
                         [tcode_axis_name |-> fields[1],
                          preferred_min |-> Unwrap(ParseU16(fields[2])),
                          preferred_max |-> Unwrap(ParseU16(fields[3])),
                          identified_name |-> fields[4]]
          ELSE ~Registered(conn.lines[i].text)
    /\ Cardinality(DOMAIN conn.axis_map)
          = Cardinality({i \in LinesRead : WellFormed(conn.lines[i].text)})
    /\ (conn.lines # <<>> /\ conn.lines[Len(conn.lines)].kind = "line")
          => conn.pc \in {"enumerate", "connected"}

C18_Witness ==
    /\ conn.pc = "connected"
    /\ conn.lines = <<AxisL0, AxisShort, AxisR0>>
    /\ dev_op.op = "movement" /\ dev_op.ok

\* C19: no error met while reading or parsing one enumeration line makes
\* connect fail.
C19_LineErrorsIsolated ==
    conn.lines # <<>> => conn.pc # "failed"

\* C20 as stated: the registered axes have the ids 0, 1, 2, ... in the order
\* their lines arrived, unparsable lines taking no id.
C20_IdsOfParsedLines ==
    LET parsed == {i \in LinesRead : WellFormed(conn.lines[i].text)}
    IN  /\ DOMAIN conn.axis_map = 0..(Cardinality(parsed) - 1)
        /\ \A i \in parsed :
              conn.axis_map[Cardinality({j \in parsed : j < i})].tcode_axis_name
                 = Split(conn.lines[i].text)[1]

\* C20: registered axes have distinct AxisIds; ids are handed out from 0 in
\* order of arrival to every line read, parsed or not, so a registered axis
\* has the 0-based position of its line among all lines read, and the id of a
\* skipped line stays unused.
C20_IdsOfLinesRead ==
    LET parsed == {i \in LinesRead : WellFormed(conn.lines[i].text)}
    IN  /\ DOMAIN conn.axis_map = {i - 1 : i \in parsed}
        /\ \A i \in parsed :
              conn.axis_map[i - 1].tcode_axis_name = Split(conn.lines[i].text)[1]
        /\ conn.axis_id_generator = Cardinality(LinesRead)

C20_Witness ==
    /\ conn.pc = "connected"
    /\ conn.lines = <<AxisNotNumeric, AxisL0, AxisR0>>
    /\ DOMAIN conn.axis_map = {1, 2}

----------------------------------------------------------------------------
(* Properties of axes() (SpecEncode) *)

KnownCodes ==
    [L0 |-> "Stroke", L1 |-> "Surge", L2 |-> "Sway", R0 |-> "Twist", R1 |-> "Roll",
     R2 |-> "Pitch", V0 |-> "Vibration", A0 |-> "Valve", A1 |-> "Suction", A2 |-> "Lubricant"]

\* C21: axes() returns exactly one descriptor for each discovered axis whose
\* name is one of the ten known codes, with the AxisKind of that code, and none
\* for an axis of any other name; it does not fail and leaves the session's
\* discovery data as they were, and a repeated call returns the same list.
C21_AxesDescriptors ==
    dev_op.op = "axes" =>
        LET map == dev_op.pre.axis_map
            out == dev_op.axes
        IN  /\ dev_op.ok
            /\ \A id \in DOMAIN map :
                  LET name == map[id].tcode_axis_name
                      at == {k \in DOMAIN out : out[k].axis_id = id}
                  IN  IF name \in DOMAIN KnownCodes
                      THEN /\ Cardinality(at) = 1
                           /\ \A k \in at : out[k].axis_kind = KnownCodes[name]
                      ELSE at = {}
            /\ \A k \in DOMAIN out : out[k].axis_id \in DOMAIN map
            /\ conn = dev_op.pre
            /\ port_out = dev_op.out
            /\ dev_op.again => dev_op.prev = out

C21_Witness ==
    /\ dev_op.op = "axes"
    /\ dev_op.again
    /\ Len(dev_op.axes) = 10
    /\ Cardinality(DOMAIN dev_op.pre.axis_map) = 12

----------------------------------------------------------------------------
(* Properties of normalised_from_funscript (SpecLoad) *)

\* C24: every NormalisedAction made from a funscript file, whatever its raw
\* positions, range and inversion flag, has a position in [0, 1].
C24_NormalisedInUnitRange ==
    script.called => \A i \in DOMAIN script.out : InUnitRange(script.out[i].norm_pos)

\* C25: one action per action of the file, in the same order and with the
\* same timestamp, at pos/100, or at 1 - pos/100 when the script is inverted;
\* the range of the file, 100 or 90 or any, makes no difference.
C25_NormalisedActions ==
    script.called =>
        LET acts == script.read.actions
            out == script.out
        IN  /\ Len(out) = Len(acts)
            /\ \A i \in DOMAIN acts :
                  /\ out[i].at = acts[i].at
                  /\ IsFin(out[i].norm_pos)
                  /\ 100 * (IF script.read.inverted THEN Unit - out[i].norm_pos.v
                            ELSE out[i].norm_pos.v) = acts[i].pos * Unit
            /\ \A r \in {90, 100} :
                  normalised_from_funscript([script.read EXCEPT !.range = r]) = out

C25_Witness ==
    /\ script.called
    /\ script.read.inverted /\ script.read.range = 90
    /\ Len(script.out) = MaxLen
    /\ script.out[1].norm_pos = F((3 * Unit) \div 4)
    /\ script.out[2].at < script.out[1].at

----------------------------------------------------------------------------
(* Properties of discovery against the host's events (SpecChan) *)

\* C35: handling Shutdown sends the device a stop and ends the loop; what is
\* in the channel behind it is never handled; and the loop ends without an
\* error after no other message.
C35_ShutdownEndsLoop ==
    /\ [][(Len(handled') > Len(handled) /\ ev'.msg.type = "Shutdown") =>
             /\ last_cmd' = "stop"
             /\ task' \in {"shutdown", "error"}]_vars
    /\ [][(task \in {"shutdown", "error", "panic"})
             => UNCHANGED coVars /\ handled' = handled]_vars
    /\ [][(task = "running" /\ task' = "shutdown") => ev'.msg.type = "Shutdown"]_vars

C35_Witness ==
    /\ task = "shutdown" /\ last_cmd = "stop"
    /\ ev.msg.type = "Shutdown"
    /\ chan # <<>>

\* C28: after VideoStarting for a later content has been handled, no timeline
\* sent by the discovery task of an earlier content is installed: a timeline
\* that playtask installs comes from the task whose token it holds.
C28_NoStaleTimeline ==
    (ev.msg.type = "UseFunscript" /\ "tok" \in DOMAIN ev.msg)
        => funscript_load_ctoken = Some(ev.msg.tok)

====
